---- MODULE Spec2Model ----
(***************************************************************************)
(* Verification model of the ApolloAgent orchestrator: the metadata store  *)
(* (artifact / approval CRUD), the approval service, the execution         *)
(* tracker, the single-job workflow and the chain executor workflow.       *)
(* Every sub-system has its own specification; the variables of the other  *)
(* sub-systems stay at their initial value under it.                       *)
(***************************************************************************)
EXTENDS Integers, Sequences, FiniteSets, TLC

VARIABLES
    \* ---- metadata store: artifacts and job rows (database/crud) ----
    artifacts,          \* set of Artifact rows
    workflows,          \* job id -> Workflow row (present, latest_artifact_id)
    nextArtifactId,     \* next fresh artifact id (uuid4)
    fk_enforced,        \* whether the database enforces FOREIGN KEY clauses
    \* ---- approval requests and the approval service ----
    approvals,          \* token -> ApprovalRequest row (or NoRow)
    now,                \* datetime.utcnow()
    calls,              \* call id -> position of one ApprovalService call
    signals,            \* token -> approval_decision_signal calls delivered
    temporal_client,    \* whether the service was initialised with a client
    \* ---- ExecutionTracker for one prompt, and the backend it watches ----
    backend,            \* execution state of the prompt on the backend
    history,            \* the backend's /history record of the prompt
    ws,                 \* state of the websocket connection
    pollpc,             \* position of the _poll_history task
    wspc,               \* position of the _listen_websocket task
    completed,          \* ExecutionTracker._completed (asyncio.Event)
    result,             \* ExecutionTracker._result
    trackpc,            \* position of track()
    ret,                \* the TrackingResult returned by track()
    progress,           \* whether progress_callback has been called
    polls,              \* number of history requests of the poll task
    \* ---- single-job workflow (ComfyUIWorkflow) ----
    request,            \* WorkflowExecutionRequest
    jobwf,              \* fields of the ComfyUIWorkflow instance and its position
    act,                \* the running attempt of execute_and_track_workflow
    queue,              \* number of prompts the backend accepted for the job
    job_result,         \* WorkflowExecutionResult returned by run()
    prompt_history,     \* prompt_id -> the backend's history record of the prompt
    activity_log,       \* activities run() has scheduled after execute_and_track
    job_row,            \* the Job row (workflow_db_id) of the chain step of the job
    \* ---- chain executor workflow (ChainExecutorWorkflow) ----
    executor,           \* which ChainExecutorWorkflow runs: "sdk" or "gateway"
    plan,               \* ExecutionPlan.levels
    ch,                 \* fields of the ChainExecutorWorkflow instance and its position
    step_results,       \* ChainExecutorWorkflow._step_results
    workflow_ids,       \* keys of ChainExecutorWorkflow._workflow_ids
    tasks,              \* step -> the _execute_step coroutine of the step
    step_args,          \* step -> the _step_results its activities were given
    chain_row,          \* the Chain row of the execution
    detached,           \* writes of status-update attempts the engine gave up on
    cancel_requested,   \* whether cancel_chain has been called
    chain_result,       \* ChainExecutionResult returned by run()
    nodes,              \* step -> node.parameters: requires_approval and approval
    regenerations,      \* step -> times the regeneration loop was entered again
    job_rows,           \* step -> number of Job rows with (chain_id, step_id)
    job_artifacts,      \* step -> number of Artifact rows of the step's Job
    approval_decision,  \* ChainExecutorWorkflow.approval_decision
    decisions,          \* approval_decision_signal calls sent to the workflow
    \* ---- chain planner (ChainInterpreter) and the execute_chain endpoint ----
    chain,              \* ChainDefinition.steps: step id -> depends_on
    interpreter,        \* position of create_execution_plan, its sorter and level
    execution_plan,     \* the levels and nodes of the ExecutionPlan being built
    chain_engine,       \* whether the chain workflow was started, and the answer
    \* ---- workflow template registry (WorkflowRegistry) and its callers ----
    template_file,      \* the text of template.json on disk
    override_file,      \* template_overrides.json on disk
    bak_file,           \* template_overrides.json.bak on disk
    registry,           \* WorkflowRegistry.workflows and workflow_hashes
    summary,            \* summary of discover_workflows: discovered, last result
    edits,              \* number of edits the operator made on disk
    api,                \* the request of execute_workflow_template and its answer
    reject_args,        \* call id -> parameters of a reject call and what it raised
    \* ---- transfer_artifacts_from_storage and the target backend ----
    stored,             \* artifact id -> the Artifact row and its local file
    artifact_ids,       \* the artifact_ids argument of the activity
    transfer,           \* the running attempt of the activity and its position
    transfer_rows,      \* the ArtifactTransfer rows, in the order of creation
    uploads,            \* the upload_file calls made to the target backend
    \* ---- LoadBalancer and the select_best_server activity ----
    servers,            \* LoadBalancer.servers: the ServerHealth objects in dict order
    round_robin_index,  \* LoadBalancer._round_robin_index
    rotation,           \* the round_robin picks made so far: the online servers and the one returned
    picks,              \* number of get_best_server calls (the clock of last_check)
    selection,          \* the last get_best_server call: caller, attempt, result
    \* ---- the artifact store (image_storage.storage_dir) ----
    storage_dir,        \* local filename -> the bytes of the file, or NULL
    artifact_rows,      \* the Artifact rows: local_filename and original filename
    saved,              \* the files the download activities wrote, in order
    \* ---- one call of ChainExecutorWorkflow._wait_for_approval ----
    approval_config,    \* node.parameters['approval'] as given to the call
    wait,               \* position, locals and outcome of the call
    \* ---- one call of update_artifact_latest_flag, commit by commit ----
    flag_call,          \* position of the call between its two commits
    \* ---- template resolution (ChainInterpreter.resolve_templates) ----
    resolution,        \* one call of resolve_chain_templates: its parameters, the step results it is given, and its outcome
    \* ---- two _wait_for_approval calls of one level (gateway ChainExecutorWorkflow) ----
    shared_decision,   \* self.approval_decision, the one slot of the workflow
    gate_calls,        \* step -> its _wait_for_approval call
    sent,              \* the approval_decision_signal calls issued, each for the request of a step
    \* ---- the attempts of download_and_store_artifacts for one job ----
    download,          \* the activity of the job: its attempt, its position in output_files, and how it ended
    \* ---- the backend of one job: pre-selection by the chain step, uploads, Job row, submission ----
    route              \* one job and, for a chain step, the step that starts it: the server chosen, where files were uploaded, the Job row, the request of the child and where it submitted

dbVars == <<artifacts, workflows, nextArtifactId, fk_enforced>>

apVars == <<approvals, now, calls, signals, temporal_client>>

trVars == <<backend, history, ws, pollpc, wspc, completed, result, trackpc,
            ret, progress, polls>>

jobVars == <<request, jobwf, act, queue, job_result, prompt_history,
             activity_log, job_row>>

gateVars == <<nodes, regenerations, job_rows, job_artifacts, approval_decision,
              decisions>>

chVars == <<executor, plan, ch, step_results, workflow_ids, tasks, step_args,
            chain_row, detached, cancel_requested, chain_result, gateVars>>

plVars == <<chain, interpreter, execution_plan, chain_engine>>

rgVars == <<template_file, override_file, bak_file, registry, summary, edits,
            api, reject_args>>

tfVars == <<stored, artifact_ids, transfer, transfer_rows, uploads>>

lbVars == <<servers, round_robin_index, picks, selection, rotation>>

stVars == <<storage_dir, artifact_rows, saved>>

waVars == <<approval_config, wait>>

txVars == <<flag_call>>

tpVars == <<resolution>>

pwVars == <<shared_decision, gate_calls, sent>>

dlVars == <<download>>

rtVars == <<route>>

exceptDB == <<apVars, trVars, jobVars, chVars, plVars, rgVars, tfVars, lbVars, stVars, waVars, txVars, tpVars, pwVars, dlVars, rtVars>>

exceptAp == <<dbVars, trVars, jobVars, chVars, plVars, rgVars, tfVars, lbVars, stVars, waVars, txVars, tpVars, pwVars, dlVars, rtVars>>

exceptTr == <<dbVars, apVars, jobVars, chVars, plVars, rgVars, tfVars, lbVars, stVars, waVars, txVars, tpVars, pwVars, dlVars, rtVars>>

exceptJob == <<dbVars, apVars, trVars, chVars, plVars, rgVars, tfVars, lbVars, stVars, waVars, txVars, tpVars, pwVars, dlVars, rtVars>>

exceptCh == <<dbVars, apVars, trVars, jobVars, plVars, rgVars, tfVars, lbVars, stVars, waVars, txVars, tpVars, pwVars, dlVars, rtVars>>

exceptRg == <<dbVars, apVars, trVars, jobVars, chVars, plVars, tfVars, lbVars, stVars, waVars, txVars, tpVars, pwVars, dlVars, rtVars>>

exceptPl == <<dbVars, apVars, trVars, jobVars, chVars, rgVars, tfVars, lbVars, stVars, waVars, txVars, tpVars, pwVars, dlVars, rtVars>>

exceptTf == <<dbVars, apVars, trVars, jobVars, chVars, plVars, rgVars, lbVars, stVars, waVars, txVars, tpVars, pwVars, dlVars, rtVars>>

exceptLb == <<dbVars, apVars, trVars, jobVars, chVars, plVars, rgVars, tfVars, stVars, waVars, txVars, tpVars, pwVars, dlVars, rtVars>>

exceptSt == <<dbVars, apVars, trVars, jobVars, chVars, plVars, rgVars, tfVars,
              lbVars, waVars, txVars, tpVars, pwVars, dlVars, rtVars>>

exceptWa == <<dbVars, apVars, trVars, jobVars, chVars, plVars, rgVars, tfVars,
              lbVars, stVars, txVars, tpVars, pwVars, dlVars, rtVars>>

exceptDbTx == <<apVars, trVars, jobVars, chVars, plVars, rgVars, tfVars, lbVars, stVars, waVars, tpVars, pwVars, dlVars, rtVars>>

exceptTx == <<dbVars, apVars, trVars, jobVars, chVars, plVars, rgVars, tfVars, lbVars, stVars, waVars, tpVars, pwVars, dlVars, rtVars>>

exceptTp == <<dbVars, apVars, trVars, jobVars, chVars, plVars, rgVars, tfVars, lbVars, stVars, waVars, txVars, pwVars, dlVars, rtVars>>

exceptPw == <<dbVars, apVars, trVars, jobVars, chVars, plVars, rgVars, tfVars, lbVars, stVars, waVars, txVars, tpVars, dlVars, rtVars>>

exceptStDl == <<dbVars, apVars, trVars, jobVars, chVars, plVars, rgVars, tfVars, lbVars, waVars, txVars, tpVars, pwVars, rtVars>>

exceptDl == <<dbVars, apVars, trVars, jobVars, chVars, plVars, rgVars, tfVars, lbVars, stVars, waVars, txVars, tpVars, pwVars, rtVars>>

exceptRt == <<dbVars, apVars, trVars, jobVars, chVars, plVars, rgVars, tfVars, lbVars, stVars, waVars, txVars, tpVars, pwVars, dlVars>>

vars == <<dbVars, apVars, trVars, jobVars, chVars, plVars, rgVars, tfVars,
          lbVars, stVars, waVars, txVars, tpVars, pwVars, dlVars, rtVars>>

NULL == 0

(***************************************************************************)
(* Metadata store: Artifact and Workflow (job) rows                        *)
(***************************************************************************)
MaxArtifacts == 3
NumJobs == 2
MaxVersion == 2

ArtifactIds == 1..MaxArtifacts
JobIds == 1..NumJobs

\* models.Artifact: the columns the versioning logic reads and writes
Artifact(id, workflow_id, version, is_latest, parent_artifact_id) ==
    [id |-> id, workflow_id |-> workflow_id, version |-> version,
     is_latest |-> is_latest, parent_artifact_id |-> parent_artifact_id]

\* models.Workflow: presence of the row and its denormalised reference
Workflow(present, latest_artifact_id) ==
    [present |-> present, latest_artifact_id |-> latest_artifact_id]

get_artifact(artifact_id) == {a \in artifacts : a.id = artifact_id}

get_workflow(workflow_id) == workflows[workflow_id].present

ArtifactsOf(workflow_id) == {a \in artifacts : a.workflow_id = workflow_id}

\* query(Artifact).filter(workflow_id == w, id != keep).update({"is_latest": False})
UnsetLatest(rows, workflow_id, keep) ==
    {IF a.workflow_id = workflow_id /\ a.id # keep
        THEN [a EXCEPT !.is_latest = FALSE] ELSE a : a \in rows}

\* no call of update_artifact_latest_flag is between its commits
NoFlagCall == [pc |-> "idle", artifact_id |-> NULL]

InitDB ==
    /\ flag_call = NoFlagCall
    /\ artifacts = {}
    /\ workflows = [w \in JobIds |-> Workflow(FALSE, NULL)]
    /\ nextArtifactId = 1
    /\ fk_enforced \in BOOLEAN

create_workflow(w) ==
    /\ ~workflows[w].present
    /\ workflows' = [workflows EXCEPT ![w] = Workflow(TRUE, NULL)]
    /\ UNCHANGED <<artifacts, nextArtifactId, fk_enforced, exceptDB>>

create_artifact(w, version, is_latest, parent) ==
    /\ nextArtifactId <= MaxArtifacts
    \* the id is a fresh uuid4: a caller can name only ids issued before
    /\ parent # NULL => parent < nextArtifactId
    \* with foreign keys enforced the INSERT of a dangling reference fails
    /\ fk_enforced => /\ get_workflow(w)
                      /\ parent # NULL => get_artifact(parent) # {}
    /\ LET id == nextArtifactId
           row == Artifact(id, w, version, is_latest, parent)
       IN  /\ artifacts' = IF is_latest
                              THEN UnsetLatest(artifacts, w, id) \cup {row}
                              ELSE artifacts \cup {row}
           /\ workflows' = IF is_latest /\ get_workflow(w)
                              THEN [workflows EXCEPT ![w].latest_artifact_id = id]
                              ELSE workflows
    /\ nextArtifactId' = nextArtifactId + 1
    /\ UNCHANGED <<fk_enforced, exceptDB>>

update_workflow_latest_artifact(w, artifact_id) ==
    /\ get_workflow(w)
    /\ fk_enforced => get_artifact(artifact_id) # {}
    /\ workflows' = [workflows EXCEPT ![w].latest_artifact_id = artifact_id]
    /\ UNCHANGED <<artifacts, nextArtifactId, fk_enforced, exceptDB>>

update_artifact_latest_flag(artifact_id, is_latest) ==
    /\ get_artifact(artifact_id) # {}
    /\ LET artifact == CHOOSE a \in artifacts : a.id = artifact_id
           w == artifact.workflow_id
           others == IF is_latest THEN UnsetLatest(artifacts, w, artifact_id)
                                  ELSE artifacts
       IN  /\ artifacts' = {IF a.id = artifact_id
                               THEN [a EXCEPT !.is_latest = is_latest]
                               ELSE a : a \in others}
           /\ workflows' = IF is_latest /\ get_workflow(w)
                              THEN [workflows EXCEPT ![w].latest_artifact_id = artifact_id]
                              ELSE workflows
    /\ UNCHANGED <<nextArtifactId, fk_enforced, exceptDB>>

delete_artifact(artifact_id) ==
    /\ get_artifact(artifact_id) # {}
    \* the ORM nulls the parent reference of the children of the deleted row;
    \* workflows.latest_artifact_id is ON DELETE SET NULL, applied only by a
    \* database that enforces foreign keys
    /\ artifacts' = {IF a.parent_artifact_id = artifact_id
                        THEN [a EXCEPT !.parent_artifact_id = NULL]
                        ELSE a : a \in artifacts \ get_artifact(artifact_id)}
    /\ workflows' = [w \in JobIds |->
                        IF fk_enforced /\ workflows[w].latest_artifact_id = artifact_id
                           THEN [workflows[w] EXCEPT !.latest_artifact_id = NULL]
                           ELSE workflows[w]]
    /\ UNCHANGED <<nextArtifactId, fk_enforced, exceptDB>>

NextDB ==
    \/ \E w \in JobIds : create_workflow(w)
    \/ \E w \in JobIds, v \in 1..MaxVersion, l \in BOOLEAN,
          p \in {NULL} \cup ArtifactIds : create_artifact(w, v, l, p)
    \/ \E a \in ArtifactIds, l \in BOOLEAN : update_artifact_latest_flag(a, l)
    \/ \E w \in JobIds, a \in ArtifactIds : update_workflow_latest_artifact(w, a)
    \/ \E a \in ArtifactIds : delete_artifact(a)

(***************************************************************************)
(* Approval requests (database/crud/approval.py) and the approval service  *)
(* (clients/approval/service.py)                                           *)
(***************************************************************************)
NumTokens == 2
NumCalls == 2
MaxTime == 3
LinkTTL == 1

Tokens == 1..NumTokens
UnknownToken == NumTokens + 1
CallIds == 1..NumCalls
Users == {"alice", "bob"}
NoUser == ""
NoRow == [status |-> "absent"]

\* status of a freshly inserted ApprovalRequest row (column default)
DefaultApprovalStatus == "pending"

\* ApprovalRequest(...) as built by create_approval_request
ApprovalRequest(link_expires_at) ==
    [status |-> DefaultApprovalStatus, decided_by |-> NoUser, decided_at |-> NULL,
     link_expires_at |-> link_expires_at]

get_approval_request_by_token(token) ==
    IF token \in Tokens /\ approvals[token] # NoRow THEN {token} ELSE {}

validate_approval_link_nostatus(token) ==
    /\ get_approval_request_by_token(token) # {}
    /\ ~(approvals[token].link_expires_at # NULL
         /\ approvals[token].link_expires_at < now)

validate_approval_link_noexpiry(token) ==
    /\ get_approval_request_by_token(token) # {}
    /\ approvals[token].status = "pending"

\* validate_approval_link: TRUE iff (True, None) is returned
validate_approval_link(token) ==
    /\ get_approval_request_by_token(token) # {}
    /\ approvals[token].status = "pending"
    /\ ~(approvals[token].link_expires_at # NULL
         /\ approvals[token].link_expires_at < now)

\* the row after request.status = <status>; decided_at = utcnow();
\* if decided_by: request.decided_by = decided_by
Decide(row, status, decided_by) ==
    [row EXCEPT !.status = status, !.decided_at = now,
                !.decided_by = IF decided_by # NoUser THEN decided_by ELSE @]

approve_approval_request_noguard(request_id, decided_by) ==
    IF approvals[request_id] = NoRow THEN approvals
    ELSE [approvals EXCEPT ![request_id] = Decide(@, "approved", decided_by)]

\* the table after approve_approval_request(session, request_id, decided_by)
approve_approval_request(request_id, decided_by) ==
    IF approvals[request_id] = NoRow THEN approvals
    ELSE IF approvals[request_id].status # "pending" THEN approvals
    ELSE [approvals EXCEPT ![request_id] = Decide(@, "approved", decided_by)]

reject_approval_request(request_id, decided_by) ==
    IF approvals[request_id] = NoRow THEN approvals
    ELSE IF approvals[request_id].status # "pending" THEN approvals
    ELSE [approvals EXCEPT ![request_id] = Decide(@, "rejected", decided_by)]

cancel_approval_request(request_id) ==
    IF approvals[request_id] = NoRow THEN approvals
    ELSE IF approvals[request_id].status # "pending" THEN approvals
    ELSE [approvals EXCEPT ![request_id] = Decide(@, "cancelled", NoUser)]

IdleCall == [pc |-> "idle", op |-> "none", token |-> NULL, decided_by |-> NoUser]

InitApproval ==
    /\ approvals = [t \in Tokens |-> NoRow]
    /\ now = 1
    /\ calls = [c \in CallIds |-> IdleCall]
    /\ signals = [t \in Tokens |-> <<>>]
    /\ temporal_client \in BOOLEAN

IdleApproval ==
    /\ approvals = [t \in Tokens |-> NoRow]
    /\ now = 1
    /\ calls = [c \in CallIds |-> IdleCall]
    /\ signals = [t \in Tokens |-> <<>>]
    /\ temporal_client = FALSE

\* the clock advances
Tick ==
    /\ now < MaxTime
    /\ now' = now + 1
    /\ UNCHANGED <<approvals, calls, signals, temporal_client, exceptAp>>

\* create_approval_request: a fresh token, expiry only when hours are given
create_approval_request(token, link_expiration_hours) ==
    /\ approvals[token] = NoRow
    /\ \A t \in Tokens : t < token => approvals[t] # NoRow
    /\ approvals' = [approvals EXCEPT ![token] =
          ApprovalRequest(IF link_expiration_hours # NULL
                             THEN now + link_expiration_hours ELSE NULL)]
    /\ UNCHANGED <<now, calls, signals, temporal_client, exceptAp>>

\* direct calls of the CRUD functions
crud_approve(request_id, decided_by) ==
    /\ approvals' = approve_approval_request(request_id, decided_by)
    /\ UNCHANGED <<now, calls, signals, temporal_client, exceptAp>>

crud_reject(request_id, decided_by) ==
    /\ approvals' = reject_approval_request(request_id, decided_by)
    /\ UNCHANGED <<now, calls, signals, temporal_client, exceptAp>>

crud_cancel(request_id) ==
    /\ approvals' = cancel_approval_request(request_id)
    /\ UNCHANGED <<now, calls, signals, temporal_client, exceptAp>>

\* ApprovalService.approve up to its only suspension point (await of the
\* signal): validation, lookup and the database update run without yielding
service_approve(c, token, decided_by) ==
    /\ calls[c].pc = "idle"
    /\ IF ~validate_approval_link(token)
          THEN /\ calls' = [calls EXCEPT ![c] =
                    [pc |-> "error", op |-> "approve", token |-> token,
                     decided_by |-> decided_by]]
               /\ UNCHANGED approvals
          ELSE /\ approvals' = approve_approval_request(token, decided_by)
               /\ calls' = [calls EXCEPT ![c] =
                    [pc |-> IF temporal_client THEN "signal" ELSE "done",
                     op |-> "approve", token |-> token,
                     decided_by |-> decided_by]]
    /\ UNCHANGED <<now, signals, temporal_client, exceptAp>>

\* ApprovalService.reject up to the await of the signal: the row and the call
\* after validation, lookup and the database update; params_valid is the
\* verdict of validate_parameters on the submitted parameters
reject_decision(c, token, decided_by, params_valid) ==
    /\ calls[c].pc = "idle"
    /\ IF ~validate_approval_link(token) \/ ~params_valid
          THEN /\ calls' = [calls EXCEPT ![c] =
                    [pc |-> "error", op |-> "reject", token |-> token,
                     decided_by |-> decided_by]]
               /\ UNCHANGED approvals
          ELSE /\ approvals' = reject_approval_request(token, decided_by)
               /\ calls' = [calls EXCEPT ![c] =
                    [pc |-> IF temporal_client THEN "signal" ELSE "done",
                     op |-> "reject", token |-> token,
                     decided_by |-> decided_by]]

service_reject(c, token, decided_by, params_valid) ==
    /\ reject_decision(c, token, decided_by, params_valid)
    /\ UNCHANGED <<now, signals, temporal_client, exceptAp>>

\* _send_approval_signal: handle.signal delivers the decision of the call
send_approval_signal(c) ==
    /\ calls[c].pc = "signal"
    /\ signals' = [signals EXCEPT ![calls[c].token] = Append(@,
          [decision |-> IF calls[c].op = "approve" THEN "approved" ELSE "rejected",
           decided_by |-> calls[c].decided_by])]
    /\ calls' = [calls EXCEPT ![c].pc = "done"]
    /\ UNCHANGED <<approvals, now, temporal_client, exceptAp>>

\* _send_approval_signal: handle.signal raises, the exception is re-raised
send_approval_signal_fails(c) ==
    /\ calls[c].pc = "signal"
    /\ calls' = [calls EXCEPT ![c].pc = "signal_failed"]
    /\ UNCHANGED <<approvals, now, signals, temporal_client, exceptAp>>

\* the CRUD functions called directly on the table
NextApprovalCrud ==
    \/ Tick
    \/ \E t \in Tokens, h \in {NULL, LinkTTL} : create_approval_request(t, h)
    \/ \E t \in Tokens, u \in Users \cup {NoUser} : crud_approve(t, u)
    \/ \E t \in Tokens, u \in Users \cup {NoUser} : crud_reject(t, u)
    \/ \E t \in Tokens : crud_cancel(t)

\* concurrent calls of the approval service
NextApproval ==
    \/ Tick
    \/ \E t \in Tokens, h \in {NULL, LinkTTL} : create_approval_request(t, h)
    \/ \E t \in Tokens : crud_cancel(t)
    \/ \E c \in CallIds, t \in Tokens \cup {UnknownToken}, u \in Users :
          service_approve(c, t, u)
    \/ \E c \in CallIds, t \in Tokens \cup {UnknownToken}, u \in Users,
          v \in BOOLEAN : service_reject(c, t, u, v)
    \/ \E c \in CallIds : send_approval_signal(c)
    \/ \E c \in CallIds : send_approval_signal_fails(c)

(***************************************************************************)
(* Execution tracker (clients/comfy/tracker.py) against one backend        *)
(***************************************************************************)
\* TrackingResult(status, history_data, error)
TrackingResult(status, history_data, error) ==
    [status |-> status, history_data |-> history_data, error |-> error]

NoResult == [status |-> "NONE"]

MaxPolls == 2

InitTracker ==
    /\ backend = "running"
    /\ history = "none"
    /\ ws = "connecting"
    /\ pollpc = "start"
    /\ wspc = "listen"
    /\ completed = FALSE
    /\ result = NoResult
    /\ trackpc = "waiting"
    /\ ret = NoResult
    /\ progress = FALSE
    /\ polls = 0

\* the result and the gate after self._set_result(r)
set_result(r) ==
    IF ~completed THEN [result |-> r, completed |-> TRUE]
                  ELSE [result |-> result, completed |-> completed]

\* the backend finishes the prompt
BackendFinish(outcome) ==
    /\ backend = "running"
    /\ backend' = outcome
    /\ UNCHANGED <<history, ws, pollpc, wspc, completed, result, trackpc, ret,
                   progress, polls, exceptTr>>

\* the backend records the prompt in its history; an error record may carry
\* an empty messages list
BackendRecord(record) ==
    /\ backend # "running"
    /\ history = "none"
    /\ record \in (IF backend = "success" THEN {"success"}
                                          ELSE {"error", "error_nomsg"})
    /\ history' = record
    /\ UNCHANGED <<backend, ws, pollpc, wspc, completed, result, trackpc, ret,
                   progress, polls, exceptTr>>

\* _poll_history: `while not self._completed.is_set()` and the GET is sent;
\* polls counts the requests sent, up to MaxPolls
PollStart ==
    /\ pollpc = "start"
    /\ pollpc' = IF completed THEN "done" ELSE "fetching"
    /\ polls' = IF ~completed /\ polls < MaxPolls THEN polls + 1 ELSE polls
    /\ UNCHANGED <<backend, history, ws, wspc, completed, result, trackpc, ret,
                   progress, exceptTr>>

\* the body of _poll_history on the history returned by get_history
poll_history(h) ==
    IF h = "success"
       THEN [set |-> TRUE, r |-> TrackingResult("SUCCESS", h, "none")]
    ELSE IF h = "error"
       THEN [set |-> TRUE, r |-> TrackingResult("ERROR", h, "message")]
    \* messages == []: messages[0][1] raises IndexError, caught by the
    \* `except Exception` of the loop; any other record is polled again
    ELSE [set |-> FALSE, r |-> NoResult]

\* _poll_history: get_history returned
PollResponseOk ==
    /\ pollpc = "fetching"
    /\ LET p == poll_history(history)
           s == set_result(p.r)
       IN  IF p.set
              THEN /\ result' = s.result
                   /\ completed' = s.completed
                   /\ pollpc' = "done"
              ELSE /\ pollpc' = "sleep"
                   /\ UNCHANGED <<result, completed>>
    /\ UNCHANGED <<backend, history, ws, wspc, trackpc, ret, progress, polls, exceptTr>>

\* _poll_history: get_history raised, the error is logged
PollResponseFails ==
    /\ pollpc = "fetching"
    /\ pollpc' = "sleep"
    /\ UNCHANGED <<backend, history, ws, wspc, completed, result, trackpc, ret,
                   progress, polls, exceptTr>>

\* _poll_history: asyncio.sleep(poll_interval) is over
PollWake ==
    /\ pollpc = "sleep"
    /\ pollpc' = "start"
    /\ UNCHANGED <<backend, history, ws, wspc, completed, result, trackpc, ret,
                   progress, polls, exceptTr>>

\* listen(): websockets.connect succeeds
WsConnect ==
    /\ ws = "connecting" /\ wspc = "listen"
    /\ ws' = "open"
    /\ UNCHANGED <<backend, history, pollpc, wspc, completed, result, trackpc,
                   ret, progress, polls, exceptTr>>

\* listen(): the connection fails or is closed, the generator ends and
\* _listen_websocket returns without a result
WsClosed ==
    /\ ws \in {"connecting", "open", "drained"} /\ wspc = "listen"
    /\ ws' = "closed"
    /\ wspc' = "done"
    /\ UNCHANGED <<backend, history, pollpc, completed, result, trackpc, ret,
                   progress, polls, exceptTr>>

\* _listen_websocket: an `executing` message is forwarded to progress_callback
WsExecuting ==
    /\ ws = "open" /\ wspc = "listen" /\ backend = "running"
    /\ progress' = TRUE
    /\ UNCHANGED <<backend, history, ws, pollpc, wspc, completed, result,
                   trackpc, ret, polls, exceptTr>>

\* _listen_websocket: `execution_success`, the last message for the prompt,
\* arrives and the history is requested
WsSuccess ==
    /\ ws = "open" /\ wspc = "listen" /\ backend = "success"
    /\ wspc' = "fetching"
    /\ ws' = "drained"
    /\ UNCHANGED <<backend, history, pollpc, completed, result, trackpc,
                   ret, progress, polls, exceptTr>>

\* the history requested after `execution_success` arrives and the SUCCESS
\* result is built whether or not it holds a record for the prompt
WsHistoryOk_unchecked ==
    /\ wspc = "fetching"
    /\ LET s == set_result(TrackingResult("SUCCESS", history, "none"))
       IN  /\ result' = s.result
           /\ completed' = s.completed
           /\ wspc' = "done"
    /\ UNCHANGED <<backend, history, ws, pollpc, trackpc, ret, progress, polls, exceptTr>>

\* _listen_websocket: the history requested after `execution_success` arrives;
\* a record for the prompt becomes the SUCCESS result, otherwise listening goes on
WsHistoryOk ==
    /\ wspc = "fetching"
    /\ IF history # "none"
          THEN LET s == set_result(TrackingResult("SUCCESS", history, "none"))
               IN  /\ result' = s.result
                   /\ completed' = s.completed
                   /\ wspc' = "done"
          ELSE /\ wspc' = "listen"
               /\ UNCHANGED <<result, completed>>
    /\ UNCHANGED <<backend, history, ws, pollpc, trackpc, ret, progress, polls, exceptTr>>

\* _listen_websocket: get_history raised after `execution_success`
WsHistoryFails ==
    /\ wspc = "fetching"
    /\ wspc' = "listen"
    /\ UNCHANGED <<backend, history, ws, pollpc, completed, result, trackpc,
                   ret, progress, polls, exceptTr>>

\* _listen_websocket: `execution_error` or `execution_interrupted` arrives
WsFailure(status) ==
    /\ ws = "open" /\ wspc = "listen" /\ backend = "error"
    /\ LET s == set_result(TrackingResult(status, "none", "ws"))
       IN  /\ result' = s.result
           /\ completed' = s.completed
    /\ wspc' = "done"
    /\ UNCHANGED <<backend, history, ws, pollpc, trackpc, ret, progress, polls, exceptTr>>

Cancelled(pc) == IF pc = "done" THEN "done" ELSE "cancelled"

\* track(): the wait on the gate returns, both tasks are cancelled
TrackReturn ==
    /\ trackpc = "waiting" /\ completed
    /\ trackpc' = "returned"
    /\ ret' = result
    /\ pollpc' = Cancelled(pollpc)
    /\ wspc' = Cancelled(wspc)
    /\ UNCHANGED <<backend, history, ws, completed, result, progress, polls, exceptTr>>

\* a deadline that takes effect only once both tasks have ended
TrackTimeout_after_tasks ==
    /\ trackpc = "waiting"
    /\ pollpc = "done" /\ wspc = "done"
    /\ trackpc' = "returned"
    /\ result' = TrackingResult("ERROR", "none", "timeout")
    /\ ret' = TrackingResult("ERROR", "none", "timeout")
    /\ UNCHANGED <<pollpc, wspc>>
    /\ UNCHANGED <<backend, history, ws, completed, progress, polls, exceptTr>>

\* track(): asyncio.wait_for raises TimeoutError, the result is replaced by the
\* time-out error and both tasks are cancelled
TrackTimeout ==
    /\ trackpc = "waiting"
    /\ trackpc' = "returned"
    /\ result' = TrackingResult("ERROR", "none", "timeout")
    /\ ret' = TrackingResult("ERROR", "none", "timeout")
    /\ pollpc' = Cancelled(pollpc)
    /\ wspc' = Cancelled(wspc)
    /\ UNCHANGED <<backend, history, ws, completed, progress, polls, exceptTr>>

NextTracker ==
    \/ \E o \in {"success", "error"} : BackendFinish(o)
    \/ \E r \in {"success", "error", "error_nomsg"} : BackendRecord(r)
    \/ PollStart
    \/ PollResponseOk
    \/ PollResponseFails
    \/ PollWake
    \/ WsConnect
    \/ WsClosed
    \/ WsExecuting
    \/ WsSuccess
    \/ WsHistoryOk
    \/ WsHistoryFails
    \/ \E s \in {"ERROR", "INTERRUPTED"} : WsFailure(s)
    \/ TrackReturn
    \/ TrackTimeout

(***************************************************************************)
(* Single-job workflow (workflows/comfy_workflow.py) and its               *)
(* execute_and_track_workflow activity (activities/execute_workflow.py)    *)
(***************************************************************************)
\* RetryPolicy(maximum_attempts=...) of the four activities of run()
MaxSelectAttempts == 3
MaxExecuteAttempts == 2
MaxFilesAttempts == 2
MaxDownloadAttempts == 3

NoAttempt == [pc |-> "none", prompt_id |-> NULL]

\* WorkflowExecutionResult(status, prompt_id, error)
WorkflowExecutionResult(status, prompt_id, error) ==
    [status |-> status, prompt_id |-> prompt_id, error |-> error]

NoJobResult == [status |-> "none", prompt_id |-> NULL, error |-> "none"]

\* the prompt ids the attempts of one job can obtain
PromptIds == 1..MaxExecuteAttempts

\* the results track() can return for a prompt whose history record is h: the
\* deadline, an execution_error or execution_interrupted websocket message
\* while the prompt is not recorded as a success, and the result of the poll
\* task or of the execution_success message for a recorded prompt
TrackingResults(h) ==
    {TrackingResult("ERROR", "none", "timeout")}
        \cup (IF h # "success"
                 THEN {TrackingResult("ERROR", "none", "ws"),
                       TrackingResult("INTERRUPTED", "none", "ws")}
                 ELSE {})
        \cup (IF h = "success" THEN {TrackingResult("SUCCESS", h, "none")} ELSE {})
        \cup (IF h = "error" THEN {TrackingResult("ERROR", h, "message")} ELSE {})

\* the Job row: status and error_message
JobRow(status, error_message) ==
    [status |-> status, error_message |-> error_message]

NoJobRow == [status |-> "absent"]

\* ComfyUIWorkflow.__init__
InitJob ==
    /\ request \in [server_address : BOOLEAN, workflow_db_id : BOOLEAN]
    /\ jobwf = [pc |-> "start", _status |-> "initializing",
                _server_address |-> NULL, _prompt_id |-> NULL,
                _cancelled |-> FALSE, attempt |-> 0, _error |-> "none"]
    /\ act = NoAttempt
    /\ queue = 0
    /\ job_result = NoJobResult
    /\ prompt_history = [p \in PromptIds |-> "none"]
    /\ activity_log = {}
    /\ job_row = IF request.workflow_db_id THEN JobRow("queued", "none")
                                           ELSE NoJobRow

\* the workflow instance once the execute_and_track activity is scheduled
Executing(w) ==
    [w EXCEPT !._server_address = 1, !._status = "executing",
              !.pc = "execute_and_track_workflow", !.attempt = 1]

\* run(): from the start to the first await
run_start ==
    /\ jobwf.pc = "start"
    /\ IF request.server_address
          THEN /\ jobwf' = Executing(jobwf)
               /\ act' = [pc |-> "scheduled", prompt_id |-> NULL]
          ELSE /\ jobwf' = [jobwf EXCEPT !._status = "selecting_server",
                                         !.pc = "select_best_server",
                                         !.attempt = 1]
               /\ UNCHANGED act
    /\ UNCHANGED <<request, queue, job_result, prompt_history, activity_log, job_row,
                   exceptJob>>

\* run(): the `except Exception` handler returns a failed result
run_except ==
    /\ jobwf' = [jobwf EXCEPT !._status = "failed", !.pc = "returned",
                              !._error = "ActivityError"]
    /\ job_result' = WorkflowExecutionResult("failed", jobwf._prompt_id,
                                             "ActivityError")

\* an attempt of the awaited activity failed: the engine starts the next
\* attempt, or raises ActivityError in run() after the last one
attempt_failed(max_attempts) ==
    IF jobwf.attempt < max_attempts
       THEN /\ jobwf' = [jobwf EXCEPT !.attempt = @ + 1]
            /\ UNCHANGED job_result
       ELSE run_except

select_best_server_ok ==
    /\ jobwf.pc = "select_best_server"
    /\ jobwf' = Executing(jobwf)
    /\ act' = [pc |-> "scheduled", prompt_id |-> NULL]
    /\ UNCHANGED <<request, queue, job_result, prompt_history, activity_log, job_row,
                   exceptJob>>

select_best_server_fails ==
    /\ jobwf.pc = "select_best_server"
    /\ attempt_failed(MaxSelectAttempts)
    /\ UNCHANGED <<request, act, queue, prompt_history, activity_log, job_row,
                   exceptJob>>

\* execute_and_track_workflow -> client.execute_workflow: POST /prompt is
\* accepted, the backend queues the workflow under a new prompt_id
queue_prompt ==
    /\ jobwf.pc = "execute_and_track_workflow" /\ act.pc = "scheduled"
    /\ queue' = queue + 1
    /\ act' = [pc |-> "tracking", prompt_id |-> queue + 1]
    /\ UNCHANGED <<request, jobwf, job_result, prompt_history, activity_log, job_row,
                   exceptJob>>

\* POST /prompt fails (raise_for_status): the attempt raises
queue_prompt_fails ==
    /\ jobwf.pc = "execute_and_track_workflow" /\ act.pc = "scheduled"
    /\ attempt_failed(MaxExecuteAttempts)
    /\ act' = IF jobwf.attempt < MaxExecuteAttempts
                 THEN [pc |-> "scheduled", prompt_id |-> NULL] ELSE NoAttempt
    /\ UNCHANGED <<request, queue, prompt_history, activity_log, job_row,
                   exceptJob>>

\* the backend records a prompt of the job in its history
backend_history(p, h) ==
    /\ p <= queue
    /\ prompt_history[p] = "none"
    /\ prompt_history' = [prompt_history EXCEPT ![p] = h]
    /\ UNCHANGED <<request, jobwf, act, queue, job_result, activity_log,
                   job_row, exceptJob>>

\* tracker.track() returns tracking_result, client.execute_workflow builds the
\* WorkflowResult and the activity returns its dict; run() goes on to
\* get_server_output_files or returns the failed result with the error
execute_and_track_workflow_returns(tracking_result) ==
    /\ jobwf.pc = "execute_and_track_workflow" /\ act.pc = "tracking"
    /\ tracking_result \in TrackingResults(prompt_history[act.prompt_id])
    /\ IF tracking_result.status = "SUCCESS"
          THEN /\ jobwf' = [jobwf EXCEPT !._prompt_id = act.prompt_id,
                                         !._status = "processing_outputs",
                                         !.pc = "get_server_output_files",
                                         !.attempt = 1]
               /\ activity_log' = activity_log \cup {"get_server_output_files"}
               /\ UNCHANGED job_result
          ELSE /\ jobwf' = [jobwf EXCEPT !._prompt_id = act.prompt_id,
                                         !._status = "failed",
                                         !._error = tracking_result.error,
                                         !.pc = "returned"]
               /\ job_result' = WorkflowExecutionResult("failed", act.prompt_id,
                                                        tracking_result.error)
               /\ UNCHANGED activity_log
    /\ act' = NoAttempt
    /\ UNCHANGED <<request, queue, prompt_history, job_row, exceptJob>>

\* the attempt is lost after the submission: the worker crashes, or the
\* heartbeat or start-to-close timeout fires while track() is waiting
execute_and_track_workflow_lost ==
    /\ jobwf.pc = "execute_and_track_workflow" /\ act.pc = "tracking"
    /\ attempt_failed(MaxExecuteAttempts)
    /\ act' = IF jobwf.attempt < MaxExecuteAttempts
                 THEN [pc |-> "scheduled", prompt_id |-> NULL] ELSE NoAttempt
    /\ UNCHANGED <<request, queue, prompt_history, activity_log, job_row,
                   exceptJob>>

get_server_output_files_ok ==
    /\ jobwf.pc = "get_server_output_files"
    /\ jobwf' = [jobwf EXCEPT !._status = "downloading_files",
                              !.pc = IF request.workflow_db_id
                                        THEN "download_and_store_artifacts"
                                        ELSE "download_and_store_images",
                              !.attempt = 1]
    /\ activity_log' = activity_log \cup
          {IF request.workflow_db_id THEN "download_and_store_artifacts"
                                     ELSE "download_and_store_images"}
    /\ UNCHANGED <<request, act, queue, job_result, prompt_history, job_row,
                   exceptJob>>

get_server_output_files_fails ==
    /\ jobwf.pc = "get_server_output_files"
    /\ attempt_failed(MaxFilesAttempts)
    /\ UNCHANGED <<request, act, queue, prompt_history, activity_log, job_row,
                   exceptJob>>

\* download_and_store_artifacts / download_and_store_images returns
download_ok ==
    /\ jobwf.pc \in {"download_and_store_artifacts", "download_and_store_images"}
    /\ jobwf' = [jobwf EXCEPT !._status = "completed", !.pc = "returned"]
    /\ job_result' = WorkflowExecutionResult("completed", jobwf._prompt_id,
                                             "none")
    /\ UNCHANGED <<request, act, queue, prompt_history, activity_log, job_row,
                   exceptJob>>

download_fails ==
    /\ jobwf.pc \in {"download_and_store_artifacts", "download_and_store_images"}
    /\ attempt_failed(MaxDownloadAttempts)
    /\ UNCHANGED <<request, act, queue, prompt_history, activity_log, job_row,
                   exceptJob>>

\* the cancel signal handler
cancel ==
    /\ jobwf.pc \notin {"start", "returned", "recorded"}
    /\ ~jobwf._cancelled
    /\ jobwf' = [jobwf EXCEPT !._cancelled = TRUE, !._status = "cancelled"]
    /\ UNCHANGED <<request, act, queue, job_result, prompt_history, activity_log, job_row,
                   exceptJob>>

\* _execute_step of the chain executor, steps 8-9: the child workflow has
\* returned, update_workflow_status_activity is given result.status and
\* result.error; a database error is logged and leaves the row as it is
update_workflow_status_activity(written) ==
    /\ jobwf.pc = "returned"
    /\ job_row # NoJobRow
    /\ jobwf' = [jobwf EXCEPT !.pc = "recorded"]
    /\ job_row' = IF written
                     THEN JobRow(job_result.status,
                                 IF job_result.error # "none"
                                    THEN job_result.error
                                    ELSE job_row.error_message)
                     ELSE job_row
    /\ UNCHANGED <<request, act, queue, job_result, prompt_history,
                   activity_log, exceptJob>>

NextJob ==
    \/ run_start
    \/ select_best_server_ok
    \/ select_best_server_fails
    \/ queue_prompt
    \/ queue_prompt_fails
    \/ \E p \in PromptIds, h \in {"success", "error"} : backend_history(p, h)
    \/ \E h \in {"none", "success", "error"} :
          \E r \in TrackingResults(h) : execute_and_track_workflow_returns(r)
    \/ execute_and_track_workflow_lost
    \/ get_server_output_files_ok
    \/ get_server_output_files_fails
    \/ download_ok
    \/ download_fails
    \/ cancel
    \/ \E w \in BOOLEAN : update_workflow_status_activity(w)

(***************************************************************************)
(* Chain executor workflow (temporal_sdk/chains/workflows.py, and the      *)
(* variant of temporal_gateway/workflows/chain/workflow.py), the Chain row *)
(* (database/crud/chain.py) and cancel_chain (temporal_sdk/chains/engine)  *)
(***************************************************************************)
NumSteps == 2
MaxDetached == 1
MaxRegenerations == 2
MaxJobRows == 2
MaxDecisions == 2
MaxRetries == 1

Steps == 1..NumSteps

\* ExecutionPlan.levels for the cut points `cuts`: consecutive steps share a
\* level until a cut point starts the next level
LevelsOf(cuts) ==
    [n \in 1..(Cardinality(cuts) + 1) |->
        {s \in Steps : Cardinality({c \in cuts : c < s}) = n - 1}]

Plans == {LevelsOf(cuts) : cuts \in SUBSET (1..(NumSteps - 1))}

get_total_levels == Len(plan)

\* ExecutionNode.level
level(s) == CHOOSE n \in 0..(get_total_levels - 1) : s \in plan[n + 1]

\* ExecutionNode.dependencies: the steps of the level below
dependencies(s) == IF level(s) = 0 THEN {} ELSE plan[level(s)]

\* f"executing_level_{level_num}"
LevelNames == <<"executing_level_0", "executing_level_1", "executing_level_2",
                "executing_level_3">>

executing_level(level_num) == LevelNames[level_num + 1]

NoLevel == -1
NoError == ""

\* StepResult(step_id, status, output, error)
StepResult(step_id, status, output, error) ==
    [step_id |-> step_id, status |-> status, output |-> output, error |-> error]

NoStepResult == [status |-> "none"]

\* ChainExecutionResult(status, step_results, error)
ChainExecutionResult(status, results, error) ==
    [status |-> status, step_results |-> results, error |-> error]

NoChainResult == [status |-> "none"]

\* the Chain row: status, current_level, error_message
Chain(status, current_level, error_message) ==
    [status |-> status, current_level |-> current_level,
     error_message |-> error_message]

NoChain == [status |-> "absent"]

\* arguments of one call of update_chain_status_activity
StatusUpdate(status, current_level, error_message) ==
    [status |-> status, current_level |-> current_level,
     error_message |-> error_message]

\* the row after update_chain_status(session, chain_id, status, current_level,
\* error_message)
update_chain_status(row, u) ==
    IF row = NoChain THEN row
    ELSE Chain(u.status,
               IF u.current_level # NoLevel THEN u.current_level
                                            ELSE row.current_level,
               IF u.error_message # NoError THEN u.error_message
                                            ELSE row.error_message)

\* every call of update_chain_status_activity that run() can make
StatusUpdates ==
    [status : {"completed", "failed"} \cup {executing_level(n) : n \in 0..(NumSteps - 1)},
     current_level : {NoLevel} \cup 0..(NumSteps - 1),
     error_message : {NoError, "cancelled"}]

IdleTask == [pc |-> "idle", ret |-> NoStepResult]

\* node.parameters: requires_approval, and approval.on_rejected and
\* approval.max_retries with their defaults
NodeParameters(requires_approval, on_rejected, max_retries) ==
    [requires_approval |-> requires_approval, on_rejected |-> on_rejected,
     max_retries |-> max_retries]

NoApproval == NodeParameters(FALSE, "stop", 0)

\* no step has run, no signal was sent
IdleGate ==
    /\ regenerations = [s \in Steps |-> 0]
    /\ job_rows = [s \in Steps |-> 0]
    /\ job_artifacts = [s \in Steps |-> 0]
    /\ approval_decision = "none"
    /\ decisions = <<>>

\* an argument that also holds the results of the steps of the running level
\* that have returned
args_step_results_peers ==
    <<{t \in Steps : step_results[t] # NoStepResult \/ tasks[t].pc = "returned"}>>

\* the value of self._step_results an activity is given as argument: the
\* steps that have a result in it
args_step_results == <<{t \in Steps : step_results[t] # NoStepResult}>>

\* the _step_results arguments of the calls of one _execute_step: `first` for
\* the first activity the coroutine calls (evaluate_chain_condition when the
\* node has a condition, resolve_chain_templates otherwise), then per activity
NoArgs == [first |-> <<>>, condition |-> <<>>, templates |-> <<>>]

\* ChainExecutorWorkflow.__init__, run() awaiting create_chain_record
InitChain ==
    /\ executor \in {"sdk", "gateway"}
    /\ plan \in Plans
    /\ ch = [pc |-> "create_chain_record", _status |-> "initializing",
             _current_level |-> 0, _chain_id |-> NULL, error |-> NoError]
    /\ step_results = [s \in Steps |-> NoStepResult]
    /\ workflow_ids = {}
    /\ tasks = [s \in Steps |-> IdleTask]
    /\ step_args = [s \in Steps |-> NoArgs]
    /\ nodes = [s \in Steps |-> NoApproval]
    /\ IdleGate
    /\ chain_row = NoChain
    /\ detached = {}
    /\ cancel_requested = FALSE
    /\ chain_result = NoChainResult

\* run(): the head of `for level_num in range(plan.get_total_levels())` up to
\* the await of update_chain_status_activity, or the code after the loop up
\* to the await of the final update_chain_status_activity
enter_level_once(c, level_num) ==
    [c EXCEPT !.pc = "update_completed", !._status = "completed"]

enter_level(c, level_num) ==
    IF level_num < get_total_levels
       THEN [c EXCEPT !.pc = "update_level", !._current_level = level_num,
                      !._status = executing_level(level_num)]
       ELSE [c EXCEPT !.pc = "update_completed", !._status = "completed"]

\* run(): the `except Exception` handler up to its await (or to its return
\* when there is no chain id)
run_handler(c, error) ==
    IF c._chain_id # NULL
       THEN [c EXCEPT !._status = "failed", !.error = error,
                      !.pc = "update_failed"]
       ELSE [c EXCEPT !._status = "failed", !.error = error, !.pc = "done"]

\* the call of update_chain_status_activity that run() is awaiting
awaited_update ==
    IF ch.pc = "update_level"
       THEN StatusUpdate(ch._status, ch._current_level, NoError)
    ELSE IF ch.pc = "update_completed"
       THEN StatusUpdate("completed", NoLevel, NoError)
    ELSE StatusUpdate("failed", NoLevel, ch.error)

\* create_chain_record returns the id of the new row
create_chain_record ==
    /\ ch.pc = "create_chain_record"
    /\ chain_row' = Chain("initializing", 0, NoError)
    /\ ch' = enter_level([ch EXCEPT !._chain_id = 1], 0)
    /\ UNCHANGED <<executor, plan, step_results, workflow_ids, tasks, detached,
                   cancel_requested, chain_result, step_args, gateVars,
                   exceptCh>>

\* update_chain_status_activity: the row after the activity returned; a
\* database error is logged and the activity returns without a write
update_chain_status_activity(written) ==
    IF written THEN update_chain_status(chain_row, awaited_update)
               ELSE chain_row

\* run(): update_chain_status_activity(executing_level_N) returned, the steps
\* of the level are started and gathered
update_level_returns(written) ==
    /\ ch.pc = "update_level"
    /\ chain_row' = update_chain_status_activity(written)
    /\ tasks' = [s \in Steps |->
                    IF s \in plan[ch._current_level + 1]
                       THEN [pc |-> "condition", ret |-> NoStepResult]
                       ELSE tasks[s]]
    /\ step_args' = [s \in Steps |->
                        IF s \in plan[ch._current_level + 1]
                           THEN [NoArgs EXCEPT !.first = args_step_results]
                           ELSE step_args[s]]
    /\ ch' = [ch EXCEPT !.pc = "gather"]
    /\ UNCHANGED <<executor, plan, step_results, workflow_ids, detached,
                   cancel_requested, chain_result, gateVars, exceptCh>>

\* run(): update_chain_status_activity(completed) returned, the completed
\* result is returned
update_completed_returns(written) ==
    /\ ch.pc = "update_completed"
    /\ chain_row' = update_chain_status_activity(written)
    /\ ch' = [ch EXCEPT !.pc = "done"]
    /\ chain_result' = ChainExecutionResult("completed", step_results, NoError)
    /\ UNCHANGED <<executor, plan, step_results, workflow_ids, tasks, detached,
                   cancel_requested, step_args, gateVars,
                   exceptCh>>

\* run(): update_chain_status_activity(failed) returned in the handler, the
\* failed result is returned
update_failed_returns(written) ==
    /\ ch.pc = "update_failed"
    /\ chain_row' = update_chain_status_activity(written)
    /\ ch' = [ch EXCEPT !.pc = "done"]
    /\ chain_result' = ChainExecutionResult("failed", step_results, ch.error)
    /\ UNCHANGED <<executor, plan, step_results, workflow_ids, tasks, detached,
                   cancel_requested, step_args, gateVars,
                   exceptCh>>

\* an attempt of update_chain_status_activity exceeds start_to_close_timeout:
\* the engine schedules the next attempt (default retry policy), the attempt
\* it gave up on may still write
update_chain_status_timeout ==
    /\ ch.pc \in {"update_level", "update_completed", "update_failed"}
    /\ Cardinality(detached) < MaxDetached
    /\ awaited_update \notin detached
    /\ detached' = detached \cup {awaited_update}
    /\ UNCHANGED <<executor, plan, ch, step_results, workflow_ids, tasks,
                   chain_row, cancel_requested, chain_result, step_args, gateVars,
                   exceptCh>>

\* an attempt the engine gave up on reaches update_chain_status
detached_write(u) ==
    /\ u \in detached
    /\ detached' = detached \ {u}
    /\ chain_row' = update_chain_status(chain_row, u)
    /\ UNCHANGED <<executor, plan, ch, step_results, workflow_ids, tasks,
                   cancel_requested, chain_result, step_args, gateVars,
                   exceptCh>>

\* an attempt the engine gave up on ends without a write
detached_lost(u) ==
    /\ u \in detached
    /\ detached' = detached \ {u}
    /\ UNCHANGED <<executor, plan, ch, step_results, workflow_ids, tasks,
                   chain_row, cancel_requested, chain_result, step_args, gateVars,
                   exceptCh>>

\* ---- _execute_step ----
awaiting(s, pc) == ch.pc = "gather" /\ tasks[s].pc = pc

goto(s, pc) == [tasks EXCEPT ![s].pc = pc]

returns(s, r) == [tasks EXCEPT ![s] = [pc |-> "returned", ret |-> r]]

\* the `except Exception` handler of _execute_step up to its await, or to its
\* return when no workflow record was created
step_handler(s, error) ==
    IF s \in workflow_ids
       THEN [pc |-> "except_update",
             ret |-> StepResult(s, "failed", NULL, error)]
       ELSE [pc |-> "returned", ret |-> StepResult(s, "failed", NULL, error)]

unchanged_by_step ==
    UNCHANGED <<executor, plan, ch, step_results, chain_row, detached,
                cancel_requested, chain_result, nodes, approval_decision,
                decisions, exceptCh>>

\* 1. node.condition: without a condition, or when evaluate_chain_condition
\* returns True, the step goes on to resolve_chain_templates; otherwise it is
\* skipped. With a condition the first activity call was
\* evaluate_chain_condition, and resolve_chain_templates is called now.
evaluate_chain_condition(s, has_condition, should_execute) ==
    /\ awaiting(s, "condition")
    /\ tasks' = IF has_condition /\ ~should_execute
                   THEN returns(s, StepResult(s, "skipped", NULL, NoError))
                   ELSE goto(s, "resolve_chain_templates")
    /\ step_args' = [step_args EXCEPT ![s] =
          IF ~has_condition
             THEN [@ EXCEPT !.templates = step_args[s].first]
          ELSE IF should_execute
             THEN [@ EXCEPT !.condition = step_args[s].first, !.templates = args_step_results]
          ELSE [@ EXCEPT !.condition = step_args[s].first]]
    /\ UNCHANGED <<workflow_ids, regenerations, job_rows, job_artifacts>>
    /\ unchanged_by_step

\* 2. resolve_chain_templates returns
resolve_chain_templates(s) ==
    /\ awaiting(s, "resolve_chain_templates")
    /\ tasks' = goto(s, "apply_workflow_parameters")
    /\ UNCHANGED <<workflow_ids, step_args, regenerations, job_rows,
                   job_artifacts>>
    /\ unchanged_by_step

\* 3. apply_workflow_parameters returns
apply_workflow_parameters(s) ==
    /\ awaiting(s, "apply_workflow_parameters")
    /\ tasks' = goto(s, "select_best_server")
    /\ UNCHANGED <<workflow_ids, step_args, regenerations, job_rows,
                   job_artifacts>>
    /\ unchanged_by_step

\* 4. select_best_server returns; in the gateway variant this is the end of
\* the body of the regeneration loop `while True`, which has no exit: the loop
\* is entered again
select_best_server(s) ==
    /\ awaiting(s, "select_best_server")
    /\ tasks' = IF executor = "gateway"
                   THEN goto(s, "resolve_chain_templates")
                ELSE IF dependencies(s) # {}
                   THEN goto(s, "transfer_artifacts")
                ELSE goto(s, "create_workflow_record")
    /\ step_args' = IF executor = "gateway"
                       THEN [step_args EXCEPT ![s].templates = args_step_results]
                       ELSE step_args
    /\ regenerations' =
          IF executor = "gateway" /\ regenerations[s] < MaxRegenerations
             THEN [regenerations EXCEPT ![s] = @ + 1]
             ELSE regenerations
    /\ UNCHANGED <<workflow_ids, job_rows, job_artifacts>>
    /\ unchanged_by_step

\* 4. select_best_server fails maximum_attempts times
select_best_server_raises(s) ==
    /\ awaiting(s, "select_best_server")
    /\ tasks' = [tasks EXCEPT ![s] = step_handler(s, "select_best_server")]
    /\ UNCHANGED <<workflow_ids, step_args, regenerations, job_rows,
                   job_artifacts>>
    /\ unchanged_by_step

\* 5. the loop over node.dependencies (get_workflow_artifacts and
\* transfer_artifacts_from_storage) ends
transfer_artifacts(s) ==
    /\ awaiting(s, "transfer_artifacts")
    /\ tasks' = goto(s, "create_workflow_record")
    /\ UNCHANGED <<workflow_ids, step_args, regenerations, job_rows,
                   job_artifacts>>
    /\ unchanged_by_step

\* 5. transfer_artifacts_from_storage fails maximum_attempts times
transfer_artifacts_raises(s) ==
    /\ awaiting(s, "transfer_artifacts")
    /\ tasks' = [tasks EXCEPT ![s] = step_handler(s, "transfer_artifacts")]
    /\ UNCHANGED <<workflow_ids, step_args, regenerations, job_rows,
                   job_artifacts>>
    /\ unchanged_by_step

\* 6. create_workflow_record returns, the id is stored in _workflow_ids and
\* the child workflow is started
create_workflow_record(s) ==
    /\ awaiting(s, "create_workflow_record")
    /\ workflow_ids' = workflow_ids \cup {s}
    /\ job_rows' = [job_rows EXCEPT ![s] = @ + 1]
    /\ tasks' = goto(s, "execute_child_workflow")
    /\ UNCHANGED <<step_args, regenerations, job_artifacts>>
    /\ unchanged_by_step

\* 6. an attempt of create_workflow_record commits its row (create_workflow)
\* but does not report within start_to_close_timeout, or its worker stops
\* before reporting: the engine schedules the next attempt (default retry
\* policy), which inserts a row again
create_workflow_record_timeout(s) ==
    /\ awaiting(s, "create_workflow_record")
    /\ job_rows[s] < MaxJobRows - 1
    /\ job_rows' = [job_rows EXCEPT ![s] = @ + 1]
    /\ UNCHANGED <<tasks, workflow_ids, step_args, regenerations, job_artifacts>>
    /\ unchanged_by_step

\* 7. the child ComfyUIWorkflow returns its result (completed with an output,
\* which download_and_store_artifacts stored as an Artifact row of the Job, or
\* failed)
execute_child_workflow(s, status) ==
    /\ awaiting(s, "execute_child_workflow")
    /\ tasks' = [tasks EXCEPT ![s] =
          [pc |-> "update_workflow_status",
           ret |-> IF status = "completed"
                      THEN StepResult(s, "completed", s, NoError)
                      ELSE StepResult(s, "failed", NULL, NoError)]]
    /\ job_artifacts' = IF status = "completed"
                           THEN [job_artifacts EXCEPT ![s] = @ + 1]
                           ELSE job_artifacts
    /\ UNCHANGED <<workflow_ids, step_args, regenerations, job_rows>>
    /\ unchanged_by_step

\* 7. the child workflow fails maximum_attempts times (ChildWorkflowError)
execute_child_workflow_raises(s) ==
    /\ awaiting(s, "execute_child_workflow")
    /\ tasks' = [tasks EXCEPT ![s] = step_handler(s, "execute_child_workflow")]
    /\ UNCHANGED <<workflow_ids, step_args, regenerations, job_rows,
                   job_artifacts>>
    /\ unchanged_by_step

\* 8-9. update_workflow_status_activity returns, the StepResult is returned
update_workflow_status(s) ==
    /\ awaiting(s, "update_workflow_status")
    /\ tasks' = goto(s, "returned")
    /\ UNCHANGED <<workflow_ids, step_args, regenerations, job_rows,
                   job_artifacts>>
    /\ unchanged_by_step

\* handler: update_workflow_status_activity(failed) returns, the failed
\* StepResult is returned
except_update_workflow_status(s) ==
    /\ awaiting(s, "except_update")
    /\ tasks' = goto(s, "returned")
    /\ UNCHANGED <<workflow_ids, step_args, regenerations, job_rows,
                   job_artifacts>>
    /\ unchanged_by_step

\* ---- the join of a level ----
current_steps == plan[ch._current_level + 1]

\* for result in results: self._step_results[result.step_id] = result
store_results(results) ==
    [s \in Steps |-> IF s \in current_steps THEN tasks[s].ret ELSE results[s]]

\* asyncio.gather returns the results of the level; they are stored and the
\* loop goes on to the next level
gather_returns ==
    /\ ch.pc = "gather"
    /\ ~cancel_requested
    /\ \A s \in current_steps : tasks[s].pc = "returned"
    /\ step_results' = store_results(step_results)
    /\ ch' = enter_level(ch, ch._current_level + 1)
    /\ UNCHANGED <<executor, plan, workflow_ids, tasks, chain_row, detached,
                   cancel_requested, chain_result, step_args, gateVars,
                   exceptCh>>

\* the cancelled asyncio.gather raises CancelledError once every step has
\* returned; it is not an Exception, run() ends without a result
gather_cancelled ==
    /\ ch.pc = "gather"
    /\ cancel_requested
    /\ \A s \in current_steps : tasks[s].pc = "returned"
    /\ ch' = [ch EXCEPT !.pc = "cancelled"]
    /\ UNCHANGED <<executor, plan, step_results, workflow_ids, tasks, chain_row,
                   detached, cancel_requested, chain_result, step_args, gateVars,
                   exceptCh>>

\* positions of _execute_step that await an activity inside its `try`
TryActivities ==
    {"condition", "resolve_chain_templates", "apply_workflow_parameters",
     "select_best_server", "transfer_artifacts", "create_workflow_record",
     "update_workflow_status"}

\* a step task when the gather that waits for it is cancelled: an awaited
\* activity raises ActivityError (in the handler it leaves the coroutine), an
\* awaited child workflow is asked to cancel and is still awaited
cancel_task(s) ==
    IF tasks[s].pc \in TryActivities THEN step_handler(s, "cancelled")
    ELSE IF tasks[s].pc = "except_update"
       THEN [pc |-> "raised", ret |-> tasks[s].ret]
    ELSE tasks[s]

\* engine.cancel_chain -> handle.cancel(): the await of run() is cancelled.
\* An awaited activity raises ActivityError into run() while its attempt may
\* still write; a gather cancels the steps it waits for and raises the
\* exception of a step that raised.
cancel_chain ==
    /\ ~cancel_requested
    /\ ch.pc \notin {"done", "cancelled"}
    /\ cancel_requested' = TRUE
    /\ IF ch.pc = "create_chain_record"
          THEN /\ ch' = run_handler(ch, "cancelled")
               /\ chain_result' =
                     ChainExecutionResult("failed", step_results, "cancelled")
               /\ UNCHANGED <<tasks, detached>>
       ELSE IF ch.pc \in {"update_level", "update_completed"}
          THEN /\ ch' = run_handler(ch, "cancelled")
               /\ detached' = IF Cardinality(detached) < MaxDetached
                                 THEN detached \cup {awaited_update}
                                 ELSE detached
               /\ UNCHANGED <<tasks, chain_result>>
       ELSE IF ch.pc = "update_failed"
          THEN /\ ch' = [ch EXCEPT !.pc = "cancelled"]
               /\ detached' = IF Cardinality(detached) < MaxDetached
                                 THEN detached \cup {awaited_update}
                                 ELSE detached
               /\ UNCHANGED <<tasks, chain_result>>
       ELSE /\ tasks' = [s \in Steps |->
                            IF s \in current_steps THEN cancel_task(s)
                                                   ELSE tasks[s]]
            /\ ch' = IF \E s \in current_steps : tasks[s].pc = "except_update"
                        THEN run_handler(ch, "cancelled")
                        ELSE ch
            /\ UNCHANGED <<detached, chain_result>>
    /\ UNCHANGED <<executor, plan, step_results, workflow_ids, chain_row,
                   step_args, gateVars,
                   exceptCh>>

NextChain ==
    \/ create_chain_record
    \/ \E w \in BOOLEAN : update_level_returns(w)
    \/ \E w \in BOOLEAN : update_completed_returns(w)
    \/ \E w \in BOOLEAN : update_failed_returns(w)
    \/ update_chain_status_timeout
    \/ \E u \in StatusUpdates : detached_write(u)
    \/ \E u \in StatusUpdates : detached_lost(u)
    \/ \E s \in Steps, c, e \in BOOLEAN : evaluate_chain_condition(s, c, e)
    \/ \E s \in Steps : resolve_chain_templates(s)
    \/ \E s \in Steps : apply_workflow_parameters(s)
    \/ \E s \in Steps : select_best_server(s)
    \/ \E s \in Steps : select_best_server_raises(s)
    \/ \E s \in Steps : transfer_artifacts(s)
    \/ \E s \in Steps : transfer_artifacts_raises(s)
    \/ \E s \in Steps : create_workflow_record(s)
    \/ \E s \in Steps, r \in {"completed", "failed"} : execute_child_workflow(s, r)
    \/ \E s \in Steps : execute_child_workflow_raises(s)
    \/ \E s \in Steps : update_workflow_status(s)
    \/ \E s \in Steps : except_update_workflow_status(s)
    \/ gather_returns
    \/ gather_cancelled
    \/ cancel_chain

\* ---- approval gate ----
\* the signal handler approval_decision_signal of the gateway variant; the
\* ChainExecutorWorkflow of temporal_sdk defines no signal handler, a signal
\* sent to it is recorded in the history of the workflow and has no effect
approval_decision_signal(decision) ==
    /\ ch.pc \notin {"done", "cancelled"}
    /\ Len(decisions) < MaxDecisions
    /\ decisions' = Append(decisions, decision)
    /\ approval_decision' = IF executor = "gateway" THEN decision
                                                  ELSE approval_decision
    /\ UNCHANGED <<executor, plan, ch, step_results, workflow_ids, tasks,
                   step_args, chain_row, detached, cancel_requested,
                   chain_result, nodes, regenerations, job_rows, job_artifacts,
                   exceptCh>>

\* a chain whose steps carry an approval policy
InitChainApproval ==
    /\ executor \in {"sdk", "gateway"}
    /\ plan = LevelsOf(1..(NumSteps - 1))
    /\ ch = [pc |-> "create_chain_record", _status |-> "initializing",
             _current_level |-> 0, _chain_id |-> NULL, error |-> NoError]
    /\ step_results = [s \in Steps |-> NoStepResult]
    /\ workflow_ids = {}
    /\ tasks = [s \in Steps |-> IdleTask]
    /\ step_args = [s \in Steps |-> NoArgs]
    /\ \E max_retries \in 0..MaxRetries :
          nodes = [s \in Steps |->
                      IF s = 1 THEN NodeParameters(TRUE, "regenerate", max_retries)
                               ELSE NoApproval]
    /\ IdleGate
    /\ chain_row = NoChain
    /\ detached = {}
    /\ cancel_requested = FALSE
    /\ chain_result = NoChainResult

\* a chain execution that is not cancelled and loses no attempt of a status
\* update, while approval decisions are signalled to it
NextChainApproval ==
    \/ create_chain_record
    \/ \E w \in BOOLEAN : update_level_returns(w)
    \/ \E w \in BOOLEAN : update_completed_returns(w)
    \/ \E s \in Steps, c, e \in BOOLEAN : evaluate_chain_condition(s, c, e)
    \/ \E s \in Steps : resolve_chain_templates(s)
    \/ \E s \in Steps : apply_workflow_parameters(s)
    \/ \E s \in Steps : select_best_server(s)
    \/ \E s \in Steps : select_best_server_raises(s)
    \/ \E s \in Steps : transfer_artifacts(s)
    \/ \E s \in Steps : transfer_artifacts_raises(s)
    \/ \E s \in Steps : create_workflow_record(s)
    \/ \E s \in Steps : create_workflow_record_timeout(s)
    \/ \E s \in Steps, r \in {"completed", "failed"} : execute_child_workflow(s, r)
    \/ \E s \in Steps : execute_child_workflow_raises(s)
    \/ \E s \in Steps : update_workflow_status(s)
    \/ \E s \in Steps : except_update_workflow_status(s)
    \/ gather_returns
    \/ \E d \in {"approved", "rejected"} : approval_decision_signal(d)

(***************************************************************************)
(* Chain planner (temporal_sdk/chains/interpreter.py: validate_dependencies,*)
(* build_dag, create_execution_plan over graphlib.TopologicalSorter) and    *)
(* the execute_chain endpoint (temporal_gateway/main.py)                    *)
(***************************************************************************)
NumChainSteps == 3
MaxDependsOn == 2

\* the ids of the steps of the chain, and the ids a depends_on can name: the
\* last one is the id of no step
ChainSteps == 1..NumChainSteps

StepIds == 1..(NumChainSteps + 1)

\* ChainDefinition.steps: step id -> depends_on
ChainDefinitions ==
    [ChainSteps -> {d \in SUBSET StepIds : Cardinality(d) <= MaxDependsOn}]

\* graphlib: _NODE_OUT, _NODE_DONE
NODE_OUT == -1

NODE_DONE == -2

NoSorter == [node2info |-> {}, npredecessors |-> [n \in StepIds |-> 0],
             ready_nodes |-> {}]

\* validate_dependencies: step_ids = {step.id for step in chain.steps}
step_ids_named(c) == DOMAIN c \cup UNION {c[s] : s \in DOMAIN c}

step_ids(c) == DOMAIN c

\* validate_dependencies: the (step, dep) pairs that make it raise
unknown_dependencies(c) ==
    {sd \in (DOMAIN c) \X StepIds : sd[2] \in c[sd[1]] /\ sd[2] \notin step_ids(c)}

\* TopologicalSorter() followed by ts.add(step.id, *step.depends_on) for every
\* step: add() makes a node of the step and of every predecessor it names
TopologicalSorter(c) ==
    [node2info |-> DOMAIN c \cup UNION {c[s] : s \in DOMAIN c},
     npredecessors |-> [n \in StepIds |->
                           IF n \in DOMAIN c THEN Cardinality(c[n]) ELSE 0],
     ready_nodes |-> {}]

\* _NodeInfo.successors of node n
successors(c, n) == {s \in DOMAIN c : n \in c[s]}

\* the nodes the depth-first search of _find_cycle visits from `front`
RECURSIVE visit(_, _, _)
visit(c, front, seen) ==
    IF front \subseteq seen
       THEN seen
       ELSE visit(c, UNION {successors(c, n) : n \in front \ seen},
                  seen \cup front)

\* TopologicalSorter._find_cycle: whether some node is reached from itself
find_cycle(c) ==
    \E n \in DOMAIN c : n \in visit(c, successors(c, n), {})

\* TopologicalSorter.prepare on a graph without cycle
prepare_first(t) ==
    [t EXCEPT !.ready_nodes =
        IF \E n \in t.node2info : t.npredecessors[n] = 0
           THEN {CHOOSE n \in t.node2info : t.npredecessors[n] = 0}
           ELSE {}]

prepare(t) ==
    [t EXCEPT !.ready_nodes = {n \in t.node2info : t.npredecessors[n] = 0}]

\* TopologicalSorter.get_ready: the sorter after the call (the call returns
\* t.ready_nodes)
get_ready(t) ==
    [t EXCEPT !.npredecessors = [n \in StepIds |->
                                    IF n \in t.ready_nodes THEN NODE_OUT ELSE @[n]],
              !.ready_nodes = {}]

\* _npassedout and _nfinished
npassedout(t) ==
    Cardinality({n \in t.node2info : t.npredecessors[n] \in {NODE_OUT, NODE_DONE}})

nfinished(t) == Cardinality({n \in t.node2info : t.npredecessors[n] = NODE_DONE})

\* TopologicalSorter.is_active
is_active(t) == nfinished(t) < npassedout(t) \/ t.ready_nodes # {}

\* ts.done(step_id) for every step_id of `ready`: each successor loses one
\* predecessor per finished node and is queued when none is left
done_early(c, t, ready) ==
    LET left(n) == t.npredecessors[n] - Cardinality(c[n] \cap ready)
    IN  [t EXCEPT !.npredecessors =
                      [n \in StepIds |->
                          IF n \in ready THEN NODE_DONE
                          ELSE IF n \in DOMAIN c THEN left(n) ELSE @[n]],
                  !.ready_nodes =
                      @ \cup {n \in DOMAIN c \ ready :
                                 t.npredecessors[n] > 0 /\ left(n) <= 1
                                    /\ c[n] \cap ready # {}}]

done(c, t, ready) ==
    LET left(n) == t.npredecessors[n] - Cardinality(c[n] \cap ready)
    IN  [t EXCEPT !.npredecessors =
                      [n \in StepIds |->
                          IF n \in ready THEN NODE_DONE
                          ELSE IF n \in DOMAIN c THEN left(n) ELSE @[n]],
                  !.ready_nodes =
                      @ \cup {n \in DOMAIN c \ ready :
                                 t.npredecessors[n] > 0 /\ left(n) = 0}]

\* ExecutionNode(step_id, ..., dependencies, level)
ExecutionNode(step_id, deps, lvl) ==
    [step_id |-> step_id, dependencies |-> deps, level |-> lvl]

\* list(ready): the ids in the order of the steps of the chain
RECURSIVE list(_)
list(S) ==
    IF S = {} THEN <<>>
    ELSE LET m == CHOOSE x \in S : \A y \in S : x <= y
         IN  <<m>> \o list(S \ {m})

\* the nodes appended for the ids of `ready`
nodes_of(c, ready, lvl) ==
    [i \in 1..Cardinality(ready) |->
        ExecutionNode(list(ready)[i], c[list(ready)[i]], lvl)]

NoPlan == [levels |-> <<>>, nodes |-> <<>>]

IdlePlanner ==
    /\ chain = [s \in ChainSteps |-> {}]
    /\ interpreter = [pc |-> "idle", error |-> "none", level |-> 0,
                      ts |-> NoSorter]
    /\ execution_plan = NoPlan
    /\ chain_engine = [started |-> FALSE, response |-> "none"]

\* POST /chains/{chain_name}/execute: load_chain has returned the chain
InitPlanner ==
    /\ chain \in ChainDefinitions
    /\ interpreter = [pc |-> "validate_dependencies", error |-> "none",
                      level |-> 0, ts |-> NoSorter]
    /\ execution_plan = NoPlan
    /\ chain_engine = [started |-> FALSE, response |-> "none"]

raise(error) == [interpreter EXCEPT !.pc = "raised", !.error = error]

\* create_execution_plan: self.validate_dependencies(chain)
validate_dependencies ==
    /\ interpreter.pc = "validate_dependencies"
    /\ interpreter' =
          IF unknown_dependencies(chain) # {}
             THEN raise("ChainValidationError: depends on unknown step")
             ELSE [interpreter EXCEPT !.pc = "build_dag"]
    /\ UNCHANGED <<chain, execution_plan, chain_engine, exceptPl>>

\* create_execution_plan: self.build_dag(chain), then the fresh sorter and
\* ts.prepare()
build_dag ==
    /\ interpreter.pc = "build_dag"
    /\ interpreter' =
          IF find_cycle(chain)
             THEN raise("ChainValidationError: circular dependencies")
             ELSE [interpreter EXCEPT !.pc = "plan", !.level = 0,
                                      !.ts = prepare(TopologicalSorter(chain))]
    /\ UNCHANGED <<chain, execution_plan, chain_engine, exceptPl>>

\* create_execution_plan: one pass of `while ts.is_active()` with a non-empty
\* ready tuple; step_lookup[step_id] raises KeyError for an id of no step
plan_level ==
    /\ interpreter.pc = "plan"
    /\ is_active(interpreter.ts)
    /\ interpreter.ts.ready_nodes # {}
    /\ LET ready == interpreter.ts.ready_nodes
           lvl == interpreter.level
       IN  IF ready \subseteq DOMAIN chain
              THEN /\ execution_plan' =
                         [levels |-> [k \in DOMAIN execution_plan.levels \cup {lvl}
                                         |-> IF k = lvl THEN ready
                                             ELSE execution_plan.levels[k]],
                          nodes |-> execution_plan.nodes \o
                                       nodes_of(chain, ready, lvl)]
                   /\ interpreter' =
                         [interpreter EXCEPT
                             !.ts = done(chain, get_ready(interpreter.ts), ready),
                             !.level = lvl + 1]
              ELSE /\ interpreter' = raise("KeyError")
                   /\ UNCHANGED execution_plan
    /\ UNCHANGED <<chain, chain_engine, exceptPl>>

\* create_execution_plan: the loop ends, the ExecutionPlan is returned
plan_returns ==
    /\ interpreter.pc = "plan"
    /\ ~(is_active(interpreter.ts) /\ interpreter.ts.ready_nodes # {})
    /\ interpreter' = [interpreter EXCEPT !.pc = "returned"]
    /\ UNCHANGED <<chain, execution_plan, chain_engine, exceptPl>>

\* execute_chain: chain_engine.execute_chain(plan) starts the chain workflow
\* and the endpoint answers "started"
execute_chain ==
    /\ interpreter.pc = "returned"
    /\ chain_engine.response = "none"
    /\ chain_engine' = [started |-> TRUE, response |-> "started"]
    /\ UNCHANGED <<chain, interpreter, execution_plan, exceptPl>>

\* execute_chain: `except Exception` answers 500
execute_chain_except ==
    /\ interpreter.pc = "raised"
    /\ chain_engine.response = "none"
    /\ chain_engine' = [chain_engine EXCEPT !.response = "500"]
    /\ UNCHANGED <<chain, interpreter, execution_plan, exceptPl>>

\* the chain workflow that was started runs: its first activity writes the
\* Chain row
ChainExecutorWorkflow_run ==
    /\ chain_engine.started
    /\ create_chain_record

NextPlanner ==
    \/ validate_dependencies
    \/ build_dag
    \/ plan_level
    \/ plan_returns
    \/ execute_chain
    \/ execute_chain_except
    \/ ChainExecutorWorkflow_run

(***************************************************************************)
(* Workflow template registry (temporal_gateway/workflow_registry.py), the *)
(* execute_workflow_template endpoint (temporal_gateway/main.py) and the   *)
(* parameter validation of ApprovalService.reject                          *)
(***************************************************************************)
NumParams == 2
MaxEdits == 2
MaxDiscoveries == 2
MaxOverrides == 2

\* the "<node_id>.<input_key>" keys of the inputs a template can have (every
\* node has one input), and a key of no template
ParamKeys == 1..NumParams

UnknownKey == NumParams + 1

\* type(value).__name__ of the default value of input k
TypeNames == <<"str", "int", "float">>

type_name(k) == TypeNames[((k - 1) % 3) + 1]

\* the text of template.json: the non-list inputs of its nodes, the number of
\* terminal output nodes, and the order and spacing of the text
Templates ==
    [inputs : SUBSET ParamKeys, outputs : {1, 2}, layout : {"compact", "pretty"}]

\* json.load of the template file
json_load(text) == [inputs |-> text.inputs, outputs |-> text.outputs]

\* _calculate_hash: sha256 of json.dumps(workflow_data, sort_keys=True)
calculate_hash(workflow_data) == <<"sha256", workflow_data>>

\* WorkflowParameter: key, type and the editable description
WorkflowParameter(key, description) ==
    [key |-> key, type |-> type_name(key), description |-> description]

\* _extract_parameters
extract_parameters(workflow_data) ==
    {WorkflowParameter(k, "generated") : k \in workflow_data.inputs}

\* _detect_output raises ValueError when it finds several output nodes
detect_output_raises(workflow_data) == workflow_data.outputs > 1

NoFile == [workflow_hash |-> <<"absent">>, parameters |-> {}]

\* the override file _generate_override_file writes
OverrideFile(workflow_hash, parameters) ==
    [workflow_hash |-> workflow_hash, parameters |-> parameters]

\* _backup_override_file: the content of the .bak file after shutil.copy2
backup_override_file_skipped(content) == NoFile

backup_override_file(content) == content

NoWorkflows == [loaded |-> FALSE, parameters |-> {}]

\* WorkflowInfo of the template in self.workflows
WorkflowInfo(parameters) == [loaded |-> TRUE, parameters |-> parameters]

NoRequest == [overrides |-> <<>>, response |-> "none", detail |-> NULL,
              started |-> FALSE]

NoRejectArgs == [parameters |-> <<>>, raised |-> "none", validation_errors |-> {}]

\* WorkflowRegistry.__init__ with the template on disk and no override file
InitRegistry ==
    /\ template_file \in Templates
    /\ override_file = NoFile
    /\ bak_file = NoFile
    /\ registry = [workflows |-> NoWorkflows, workflow_hashes |-> "none"]
    /\ summary = [discovered |-> 0, result |-> "none"]
    /\ edits = 0
    /\ api = NoRequest
    /\ reject_args = [c \in CallIds |-> NoRejectArgs]

IdleRegistry ==
    /\ template_file = [inputs |-> {}, outputs |-> 1, layout |-> "compact"]
    /\ override_file = NoFile
    /\ bak_file = NoFile
    /\ registry = [workflows |-> NoWorkflows, workflow_hashes |-> "none"]
    /\ summary = [discovered |-> 0, result |-> "none"]
    /\ edits = 0
    /\ api = NoRequest
    /\ reject_args = [c \in CallIds |-> NoRejectArgs]

\* the texts that differ from `text` in one place: one input more or less,
\* another number of output nodes, or another layout of the same document
one_change(text) ==
    {t \in Templates :
        \/ /\ Cardinality((t.inputs \ text.inputs) \cup (text.inputs \ t.inputs)) = 1
           /\ t.outputs = text.outputs /\ t.layout = text.layout
        \/ t.inputs = text.inputs /\ t.outputs # text.outputs /\ t.layout = text.layout
        \/ t.inputs = text.inputs /\ t.outputs = text.outputs /\ t.layout # text.layout}

\* the operator changes the template file
edit_template(text) ==
    /\ edits < MaxEdits
    /\ text \in one_change(template_file)
    /\ template_file' = text
    /\ edits' = edits + 1
    /\ UNCHANGED <<override_file, bak_file, registry, summary, api, reject_args,
                   exceptRg>>

\* the operator deletes a parameter entry of the override file (freezes it)
delete_parameter(k) ==
    /\ edits < MaxEdits
    /\ \E p \in override_file.parameters : p.key = k
    /\ override_file' = [override_file EXCEPT
                            !.parameters = {p \in @ : p.key # k}]
    /\ edits' = edits + 1
    /\ UNCHANGED <<template_file, bak_file, registry, summary, api, reject_args,
                   exceptRg>>

\* the operator edits the description of a parameter entry
edit_description(k) ==
    /\ edits < MaxEdits
    /\ \E p \in override_file.parameters : p.key = k /\ p.description # "edited"
    /\ override_file' = [override_file EXCEPT
                            !.parameters = {IF p.key = k
                                               THEN WorkflowParameter(k, "edited")
                                               ELSE p : p \in @}]
    /\ edits' = edits + 1
    /\ UNCHANGED <<template_file, bak_file, registry, summary, api, reject_args,
                   exceptRg>>

\* _process_workflow of the template, as discover_workflows runs it: the
\* exception of a failed step is caught and counted in summary["errors"]
process_workflow(known) ==
    LET workflow_data == json_load(template_file)
        current_hash == calculate_hash(workflow_data)
        parameters == extract_parameters(workflow_data)
        raises == detect_output_raises(workflow_data)
        exists == override_file # NoFile
        matches == override_file.workflow_hash = current_hash
        outcome == IF raises THEN "error"
                   ELSE IF ~exists THEN "generated"
                   ELSE IF matches THEN "loaded"
                   ELSE "regenerated"
    IN  /\ bak_file' = IF exists /\ ~matches
                          THEN backup_override_file(override_file)
                          ELSE bak_file
        /\ override_file' = IF raises \/ (exists /\ matches)
                               THEN override_file
                               ELSE OverrideFile(current_hash, parameters)
        /\ registry' =
              [workflows |-> IF raises THEN known
                             ELSE IF exists /\ matches
                                     THEN WorkflowInfo(override_file.parameters)
                                     ELSE WorkflowInfo(parameters),
               workflow_hashes |-> current_hash]
        /\ summary' = [discovered |-> IF raises THEN summary.discovered
                                                ELSE summary.discovered + 1,
                       result |-> outcome]

\* discover_workflows
discover_workflows ==
    /\ summary.discovered < MaxDiscoveries
    /\ process_workflow(registry.workflows)
    /\ UNCHANGED <<template_file, edits, api, reject_args, exceptRg>>

\* reload: self.workflows.clear(), then discover_workflows
reload ==
    /\ summary.discovered < MaxDiscoveries
    /\ process_workflow(NoWorkflows)
    /\ UNCHANGED <<template_file, edits, api, reject_args, exceptRg>>

\* the overrides of a request: distinct keys in the order of the dict
Overrides ==
    {o \in UNION {[1..n -> ParamKeys \cup {UnknownKey}] : n \in 0..MaxOverrides} :
        \A i, j \in 1..Len(o) : i # j => o[i] # o[j]}

\* apply_overrides: the loop over overrides.items() from position i; it raises
\* ValueError naming the key that is not in allowed_params, KeyError when the
\* node of the parameter is not in the template file
RECURSIVE apply_each(_, _, _, _)
apply_each(overrides, i, allowed_params, workflow_data) ==
    IF i > Len(overrides)
       THEN [raised |-> "none", key |-> NULL]
       ELSE IF overrides[i] \notin allowed_params
               THEN [raised |-> "ValueError", key |-> overrides[i]]
               ELSE IF overrides[i] \notin workflow_data.inputs
                       THEN [raised |-> "KeyError", key |-> NULL]
                       ELSE apply_each(overrides, i + 1, allowed_params,
                                       workflow_data)

\* apply_overrides(workflow_name, overrides)
apply_overrides(overrides) ==
    IF ~registry.workflows.loaded
       THEN [raised |-> "ValueError", key |-> NULL]
       ELSE apply_each(overrides, 1,
                       {p.key : p \in registry.workflows.parameters},
                       json_load(template_file))

\* POST /workflows/{workflow_name}/execute: ValueError is answered 400 with
\* str(e), any other exception 404 "not found"; else the job workflow is started
execute_workflow_template(overrides) ==
    /\ api.response = "none"
    /\ LET r == apply_overrides(overrides)
       IN  api' = [overrides |-> overrides,
                   response |-> IF r.raised = "ValueError" THEN "400"
                                ELSE IF r.raised = "KeyError" THEN "404"
                                ELSE "started",
                   detail |-> r.key,
                   started |-> r.raised = "none"]
    /\ UNCHANGED <<template_file, override_file, bak_file, registry, summary,
                   edits, reject_args, exceptRg>>

\* discovery and the edits of the operator between two discoveries
NextDiscovery ==
    \/ \E text \in Templates : edit_template(text)
    \/ \E k \in ParamKeys : delete_parameter(k)
    \/ \E k \in ParamKeys : edit_description(k)
    \/ discover_workflows
    \/ reload

NextRegistry ==
    \/ NextDiscovery
    \/ \E o \in Overrides : execute_workflow_template(o)

\* type(value).__name__ of the values a reject call can provide
ValueTypes == {"str", "int", "float", "bool"}

\* the parameters of a reject call: key -> type of the value provided
ProvidedParams ==
    UNION {[K -> ValueTypes] :
              K \in {S \in SUBSET (ParamKeys \cup {UnknownKey}) :
                        Cardinality(S) <= MaxOverrides}}

\* isinstance(value, expected_python_types) with the type_validators of
\* _validate_type: bool is a subclass of int
isinstance(value_type, expected_type) ==
    value_type \in (CASE expected_type = "str" -> {"str"}
                      [] expected_type = "int" -> {"int", "bool"}
                      [] expected_type = "float" -> {"int", "float", "bool"}
                      [] expected_type = "bool" -> {"bool"}
                      [] OTHER -> ValueTypes)

\* ApprovalParameterValidator.validate_parameters: the errors list, one entry
\* per provided key that is not registered or whose value fails _validate_type
validate_parameters(provided_params) ==
    IF ~registry.workflows.loaded
       THEN {[key |-> NULL, error |-> "not found in registry"]}
       ELSE LET param_lookup == registry.workflows.parameters
            IN  {[key |-> k, error |-> "is not editable"] :
                    k \in {k \in DOMAIN provided_params :
                              ~\E p \in param_lookup : p.key = k}}
                \cup
                {[key |-> k, error |-> "must be a"] :
                    k \in {k \in DOMAIN provided_params :
                              \E p \in param_lookup :
                                 /\ p.key = k
                                 /\ ~isinstance(provided_params[k], p.type)}}

\* one pending approval request whose workflow was discovered with every
\* parameter in its override file
InitReject ==
    /\ approvals = [t \in Tokens |->
                       IF t = 1 THEN ApprovalRequest(NULL) ELSE NoRow]
    /\ now = 1
    /\ calls = [c \in CallIds |-> IdleCall]
    /\ signals = [t \in Tokens |-> <<>>]
    /\ temporal_client \in BOOLEAN
    /\ template_file = [inputs |-> ParamKeys, outputs |-> 1, layout |-> "pretty"]
    /\ override_file = OverrideFile(calculate_hash(json_load(template_file)),
                                    extract_parameters(json_load(template_file)))
    /\ bak_file = NoFile
    /\ registry = [workflows |-> WorkflowInfo(override_file.parameters),
                   workflow_hashes |-> override_file.workflow_hash]
    /\ summary = [discovered |-> 1, result |-> "generated"]
    /\ edits = 0
    /\ api = NoRequest
    /\ reject_args = [c \in CallIds |-> NoRejectArgs]

\* ApprovalService.reject(token, decided_by, parameters) up to the await of
\* the signal; it raises ValueError(error) for an invalid link and
\* ValueError({"error": ..., "validation_errors": [...]}) for invalid parameters
reject(c, token, decided_by, parameters) ==
    /\ reject_decision(c, token, decided_by, validate_parameters(parameters) = {})
    /\ reject_args' = [reject_args EXCEPT ![c] =
          [parameters |-> parameters,
           raised |-> IF ~validate_approval_link(token) THEN "link"
                      ELSE IF validate_parameters(parameters) # {}
                              THEN "Invalid parameters provided"
                              ELSE "none",
           validation_errors |-> IF validate_approval_link(token)
                                    THEN validate_parameters(parameters)
                                    ELSE {}]]
    /\ UNCHANGED <<now, signals, temporal_client, template_file, override_file,
                   bak_file, registry, summary, edits, api, dbVars, trVars,
                   jobVars, chVars, plVars, tfVars, lbVars, stVars, waVars,
                   txVars, tpVars, pwVars,
                   dlVars, rtVars>>

NextReject ==
    \/ \E t \in Tokens \cup {UnknownToken}, u \in Users, p \in ProvidedParams :
          reject(1, t, u, p)
    \/ \E c \in CallIds : send_approval_signal(c)
    \/ \E c \in CallIds : send_approval_signal_fails(c)

(***************************************************************************)
(* transfer_artifacts_from_storage (activities/transfer_artifacts.py), the *)
(* ArtifactTransfer rows (database/crud/transfer.py) and step 5 of         *)
(* _execute_step that awaits the activity                                  *)
(***************************************************************************)
NumTransferArtifacts == 2

\* RetryPolicy(maximum_attempts=3) of transfer_artifacts_from_storage
MaxTransferAttempts == 3

TransferArtifacts == 1..NumTransferArtifacts

Filenames == <<"out_00001_.png", "out_00002_.png">>

\* the Artifact rows of the source job: whether the row exists, its original
\* filename and subfolder, and whether the file at local_path exists
StoredArtifact(present, filename, subfolder, local_file) ==
    [present |-> present, filename |-> filename, subfolder |-> subfolder,
     local_file |-> local_file]

NoStoredArtifact == StoredArtifact(FALSE, Filenames[1], "", FALSE)

\* models.ArtifactTransfer
ArtifactTransfer(id, artifact_id, target_subfolder, status) ==
    [id |-> id, artifact_id |-> artifact_id,
     target_subfolder |-> target_subfolder, status |-> status]

\* one POST /upload/image: the transfer it belongs to, the form fields, the
\* bytes sent, and whether the call returned
Upload(transfer_id, filename, subfolder, file_data, returned) ==
    [transfer |-> transfer_id, filename |-> filename, subfolder |-> subfolder,
     file_data |-> file_data, returned |-> returned]

IdleTransferActivity ==
    [pc |-> "idle", step |-> NULL, attempt |-> 0, i |-> 0,
     transferred_filenames |-> <<>>]

IdleTransfer ==
    /\ stored = [a \in TransferArtifacts |-> NoStoredArtifact]
    /\ artifact_ids = <<>>
    /\ transfer = IdleTransferActivity
    /\ transfer_rows = <<>>
    /\ uploads = {}

\* the Artifact rows of the source job before the activity is scheduled: the
\* first artifact is in the top folder, the others are in a subfolder, and
\* two of them may have the same filename
InitTransfer ==
    /\ \E present, local_file \in [TransferArtifacts -> BOOLEAN] :
          stored = [a \in TransferArtifacts |->
                       IF present[a]
                          THEN StoredArtifact(TRUE, Filenames[1 + (a % 2)],
                                              IF a = 1 THEN "" ELSE "chain",
                                              local_file[a])
                          ELSE NoStoredArtifact]
    /\ artifact_ids = <<>>
    /\ transfer = IdleTransferActivity
    /\ transfer_rows = <<>>
    /\ uploads = {}

\* update_transfer_status(session, transfer.id, status): the row is written in
\* the `try` after upload_file returned, or in its `except` handler
transfer_status_completed(upload_returned) == "completed"

transfer_status(upload_returned) ==
    IF upload_returned THEN "completed" ELSE "failed"

update_transfer_status(rows, transfer_id, status) ==
    [rows EXCEPT ![transfer_id].status = status]

unchanged_by_transfer ==
    UNCHANGED <<stored, exceptTf>>

\* _execute_step, step 5: get_workflow_artifacts returned a list that is not
\* empty and transfer_artifacts_from_storage is scheduled with it
schedule_transfer(s, ids) ==
    /\ awaiting(s, "transfer_artifacts")
    /\ transfer.step # s
    /\ artifact_ids' = ids
    /\ transfer' = [pc |-> "loop", step |-> s, attempt |-> 1, i |-> 1,
                    transferred_filenames |-> <<>>]
    /\ UNCHANGED <<transfer_rows, uploads>>
    /\ unchanged_by_transfer

\* `for artifact_id in artifact_ids`: an artifact that is not found is
\* skipped, for one that is found create_transfer inserts the row with
\* status uploading; after the loop the activity returns the filenames
loop_artifact_ids ==
    /\ transfer.pc = "loop"
    /\ IF transfer.i > Len(artifact_ids)
          THEN /\ transfer' = [transfer EXCEPT !.pc = "returned"]
               /\ UNCHANGED transfer_rows
       ELSE IF ~stored[artifact_ids[transfer.i]].present
          THEN /\ transfer' = [transfer EXCEPT !.i = @ + 1]
               /\ UNCHANGED transfer_rows
       ELSE /\ transfer' = [transfer EXCEPT !.pc = "upload_file"]
            /\ transfer_rows' = Append(transfer_rows,
                  ArtifactTransfer(Len(transfer_rows) + 1,
                                   artifact_ids[transfer.i],
                                   stored[artifact_ids[transfer.i]].subfolder,
                                   "uploading"))
    /\ UNCHANGED <<artifact_ids, uploads>>
    /\ unchanged_by_transfer

\* the inner `try`: the local file is read and uploaded under the filename and
\* subfolder of the artifact; the row becomes completed when upload_file
\* returned, and failed when the file is missing or the upload raised, and
\* then the attempt raises
upload_file(upload_returned) ==
    /\ transfer.pc = "upload_file"
    /\ LET transfer_id == Len(transfer_rows)
           artifact_id == artifact_ids[transfer.i]
           artifact == stored[artifact_id]
           ok == artifact.local_file /\ upload_returned
       IN  /\ uploads' = IF artifact.local_file
                            THEN uploads \cup
                                    {Upload(transfer_id, artifact.filename,
                                            artifact.subfolder, artifact_id,
                                            upload_returned)}
                            ELSE uploads
           /\ transfer_rows' = update_transfer_status(transfer_rows, transfer_id,
                                                      transfer_status(ok))
           /\ transfer' =
                 IF ok
                    THEN [transfer EXCEPT
                             !.pc = "loop", !.i = @ + 1,
                             !.transferred_filenames = Append(@, artifact.filename)]
                    ELSE [transfer EXCEPT !.pc = "raised"]
    /\ UNCHANGED artifact_ids
    /\ unchanged_by_transfer

\* the attempt raised and the retry policy allows another one
retry_transfer ==
    /\ transfer.pc = "raised"
    /\ transfer.attempt < MaxTransferAttempts
    /\ transfer' = [transfer EXCEPT !.pc = "loop", !.attempt = @ + 1, !.i = 1,
                                    !.transferred_filenames = <<>>]
    /\ UNCHANGED <<artifact_ids, transfer_rows, uploads>>
    /\ unchanged_by_transfer

\* step 5 ends without a transfer: the dependency has no Job id or
\* get_workflow_artifacts returned no artifact
transfer_skipped(s) ==
    /\ transfer.step # s
    /\ transfer_artifacts(s)

\* the activity returned to the step that awaits it
transfer_returned(s) ==
    /\ transfer.step = s /\ transfer.pc = "returned"
    /\ transfer_artifacts(s)

\* the last attempt raised: execute_activity raises ActivityError in the step
transfer_exhausted(s) ==
    /\ transfer.step = s /\ transfer.pc = "raised"
    /\ transfer.attempt = MaxTransferAttempts
    /\ transfer_artifacts_raises(s)

\* the artifact_ids the activity can be given
ArtifactIdLists ==
    {<<a>> : a \in TransferArtifacts}
        \cup {<<p[1], p[2]>> :
                 p \in {q \in TransferArtifacts \X TransferArtifacts : q[1] < q[2]}}

\* a chain of one step per level, every step after the first transfers the
\* artifacts of the step before it; the steps have no condition, the server
\* selection and the child workflows succeed and the status updates are
\* written
InitTransferChain ==
    /\ InitChain
    /\ executor = "sdk"
    /\ plan = LevelsOf(1..(NumSteps - 1))

NextTransfer ==
    \/ create_chain_record
    \/ update_level_returns(TRUE)
    \/ update_completed_returns(TRUE)
    \/ \E s \in Steps : evaluate_chain_condition(s, FALSE, TRUE)
    \/ \E s \in Steps : resolve_chain_templates(s)
    \/ \E s \in Steps : apply_workflow_parameters(s)
    \/ \E s \in Steps : select_best_server(s)
    \/ \E s \in Steps, ids \in ArtifactIdLists : schedule_transfer(s, ids)
    \/ loop_artifact_ids
    \/ \E r \in BOOLEAN : upload_file(r)
    \/ retry_transfer
    \/ \E s \in Steps : transfer_skipped(s)
    \/ \E s \in Steps : transfer_returned(s)
    \/ \E s \in Steps : transfer_exhausted(s)
    \/ \E s \in Steps : create_workflow_record(s)
    \/ \E s \in Steps : execute_child_workflow(s, "completed")
    \/ \E s \in Steps : update_workflow_status(s)
    \/ gather_returns

(***************************************************************************)
(* LoadBalancer (gateway/core/load_balancer.py) and the select_best_server *)
(* activity (temporal_gateway/activities/select_server.py)                 *)
(***************************************************************************)
NumServers == 2
MaxPending == 1
MaxPicks == 2

Addresses == 1..NumServers

\* what GET /queue of a backend answers: an error, or the prompt it is
\* running and the prompts that wait behind it
QueueResponse(ok, queue_running, queue_pending) ==
    [ok |-> ok, queue_running |-> queue_running, queue_pending |-> queue_pending]

QueueResponses ==
    {QueueResponse(FALSE, 0, 0), QueueResponse(TRUE, 0, 0)}
        \cup {QueueResponse(TRUE, 1, p) : p \in 0..MaxPending}

Strategies == {"least_loaded", "round_robin", "random", "other"}

\* ServerHealth.__init__
ServerHealth(address) ==
    [address |-> address, is_online |-> FALSE, queue_running |-> 0,
     queue_pending |-> 0, total_load |-> 0, last_check |-> NULL]

\* ServerHealth.update at time utcnow
update(server, response, utcnow) ==
    IF response.ok
       THEN [server EXCEPT !.queue_running = response.queue_running,
                           !.queue_pending = response.queue_pending,
                           !.total_load = response.queue_running
                                              + response.queue_pending,
                           !.is_online = TRUE, !.last_check = utcnow]
       ELSE [server EXCEPT !.is_online = FALSE, !.last_check = utcnow]

\* update_all_servers: every server is updated with what its backend answers
update_all_servers(health, observed, utcnow) ==
    [n \in DOMAIN health |-> update(health[n], observed[health[n].address], utcnow)]

\* [s for s in self.servers.values() if s.is_online]
is_online(s) == s.is_online

online_servers_all(health) == health

online_servers(health) == SelectSeq(health, is_online)

\* min(online_servers, key=lambda s: s.total_load): the first of the servers
\* with the lowest total_load
min_last(online) ==
    online[CHOOSE n \in DOMAIN online :
              \A m \in DOMAIN online :
                  /\ online[m].total_load >= online[n].total_load
                  /\ m > n => online[m].total_load > online[n].total_load]

min(online) ==
    online[CHOOSE n \in DOMAIN online :
              \A m \in DOMAIN online :
                  /\ online[m].total_load >= online[n].total_load
                  /\ m < n => online[m].total_load > online[n].total_load]

\* the result of one get_best_server call: who called, with which strategy,
\* and the address returned (None: NULL)
Selection(caller, attempt, strategy, address) ==
    [caller |-> caller, attempt |-> attempt, strategy |-> strategy,
     address |-> address]

NoSelection == Selection("none", 0, "none", NULL)

\* a round_robin pick: the addresses of online_servers, in their order, and
\* the address returned
addresses(online) == [n \in DOMAIN online |-> online[n].address]
Pick(online, address) == [online |-> online, address |-> address]

\* LoadBalancer.__init__
IdleBalancer ==
    /\ servers = <<>>
    /\ round_robin_index = 0
    /\ rotation = <<>>
    /\ picks = 0
    /\ selection = NoSelection

registered == {servers[n].address : n \in DOMAIN servers}

\* register_server(address)
register_server(address, response) ==
    /\ address \notin registered
    /\ servers' = Append(servers, update(ServerHealth(address), response, picks))
    /\ UNCHANGED <<round_robin_index, picks, selection, rotation, exceptLb>>

\* unregister_server(address)
unregister_server(address) ==
    /\ address \in registered
    /\ servers' = SelectSeq(servers, LAMBDA s : s.address # address)
    /\ UNCHANGED <<round_robin_index, picks, selection, rotation, exceptLb>>

\* get_best_server with a rotation index that does not persist
get_best_server_index_lost(caller, attempt, strategy, observed, choice) ==
    LET utcnow == picks + 1
        refreshed == update_all_servers(servers, observed, utcnow)
        online == online_servers(refreshed)
    IN  /\ servers' = refreshed
        /\ picks' = utcnow
        /\ choice \in 1..Len(online) \/ (choice = 1 /\ online = <<>>)
        /\ strategy = "random" \/ choice = 1
        /\ IF online = <<>>
              THEN /\ selection' = Selection(caller, attempt, strategy, NULL)
                   /\ UNCHANGED <<round_robin_index, rotation>>
           ELSE IF strategy = "round_robin"
              THEN /\ selection' =
                      Selection(caller, attempt, strategy,
                                online[(round_robin_index % Len(online)) + 1].address)
                   /\ round_robin_index' = 0
                   /\ rotation' = Append(rotation, Pick(addresses(online),
                                       online[(round_robin_index % Len(online)) + 1].address))
           ELSE IF strategy = "random"
              THEN /\ selection' = Selection(caller, attempt, strategy,
                                             online[choice].address)
                   /\ UNCHANGED <<round_robin_index, rotation>>
           ELSE /\ selection' = Selection(caller, attempt, strategy,
                                          min(online).address)
                /\ UNCHANGED <<round_robin_index, rotation>>

\* get_best_server(strategy), called by `caller`; random.choice takes the
\* server at position `choice`
get_best_server(caller, attempt, strategy, observed, choice) ==
    LET utcnow == picks + 1
        refreshed == update_all_servers(servers, observed, utcnow)
        online == online_servers(refreshed)
    IN  /\ servers' = refreshed
        /\ picks' = utcnow
        /\ choice \in 1..Len(online) \/ (choice = 1 /\ online = <<>>)
        /\ strategy = "random" \/ choice = 1
        /\ IF online = <<>>
              THEN /\ selection' = Selection(caller, attempt, strategy, NULL)
                   /\ UNCHANGED <<round_robin_index, rotation>>
           ELSE IF strategy = "round_robin"
              THEN /\ selection' =
                      Selection(caller, attempt, strategy,
                                online[(round_robin_index % Len(online)) + 1].address)
                   /\ round_robin_index' = round_robin_index + 1
                   /\ rotation' = Append(rotation, Pick(addresses(online),
                                       online[(round_robin_index % Len(online)) + 1].address))
           ELSE IF strategy = "random"
              THEN /\ selection' = Selection(caller, attempt, strategy,
                                             online[choice].address)
                   /\ UNCHANGED <<round_robin_index, rotation>>
           ELSE /\ selection' = Selection(caller, attempt, strategy,
                                          min(online).address)
                /\ UNCHANGED <<round_robin_index, rotation>>

\* POST /workflow of the gateway API asks for a server
api_get_best_server(strategy, observed, choice) ==
    /\ picks < MaxPicks
    /\ \A a \in Addresses \ registered : ~observed[a].ok
    /\ get_best_server("api", picks + 1, strategy, observed, choice)
    /\ UNCHANGED exceptLb

NextBalancer ==
    \/ \E a \in Addresses, r \in QueueResponses : register_server(a, r)
    \/ \E a \in Addresses : unregister_server(a)
    \/ \E s \in Strategies, o \in [Addresses -> QueueResponses], c \in Addresses :
          api_get_best_server(s, o, c)

\* ---- the callers of the select_best_server activity ----
\* RetryPolicy(maximum_attempts=3) of select_best_server in _execute_step
MaxStepSelectAttempts == 3

\* the servers the worker registered when it started, in the order of
\* config.yaml; their first update was not answered
RegistrationOrders ==
    {o \in UNION {[1..n -> Addresses] : n \in 0..NumServers} :
        \A i, j \in DOMAIN o : o[i] = o[j] => i = j}

InitBalancer ==
    /\ \E o \in RegistrationOrders :
          servers = [n \in DOMAIN o |->
                        update(ServerHealth(o[n]), QueueResponse(FALSE, 0, 0), 0)]
    /\ round_robin_index = 0
    /\ rotation = <<>>
    /\ picks = 0
    /\ selection = NoSelection

\* an attempt of select_best_server(request.strategy) of ComfyUIWorkflow.run
job_select_attempt(strategy, observed, choice) ==
    /\ jobwf.pc = "select_best_server"
    /\ selection.caller # "job" \/ selection.attempt < jobwf.attempt
    /\ get_best_server("job", jobwf.attempt, strategy, observed, choice)
    /\ UNCHANGED exceptLb

\* the attempt returns the address of the server
job_select_returns ==
    /\ selection.caller = "job" /\ selection.attempt = jobwf.attempt
    /\ selection.address # NULL
    /\ select_best_server_ok

\* `if not server_address: raise Exception("No available ComfyUI servers")`
job_select_raises ==
    /\ selection.caller = "job" /\ selection.attempt = jobwf.attempt
    /\ selection.address = NULL
    /\ select_best_server_fails

\* an attempt of select_best_server("least_loaded") of _execute_step
step_select_attempt(s, observed) ==
    /\ awaiting(s, "select_best_server")
    /\ \/ selection.caller # ToString(s)
          /\ get_best_server(ToString(s), 1, "least_loaded", observed, 1)
       \/ /\ selection.caller = ToString(s) /\ selection.address = NULL
          /\ selection.attempt < MaxStepSelectAttempts
          /\ get_best_server(ToString(s), selection.attempt + 1, "least_loaded",
                             observed, 1)
    /\ UNCHANGED exceptLb

step_select_returns(s) ==
    /\ selection.caller = ToString(s) /\ selection.address # NULL
    /\ select_best_server(s)

\* the last attempt raised: execute_activity raises ActivityError in the step
step_select_raises(s) ==
    /\ selection.caller = ToString(s) /\ selection.address = NULL
    /\ selection.attempt = MaxStepSelectAttempts
    /\ select_best_server_raises(s)

\* a backend that does not answer, and one that answers with a full queue
Observations ==
    [Addresses -> {QueueResponse(FALSE, 0, 0), QueueResponse(TRUE, 1, MaxPending)}]

\* one workflow execution is followed: ComfyUIWorkflow.run of a job that is
\* given no server, or ChainExecutorWorkflow.run
job_run_start == ch.pc = "create_chain_record" /\ run_start

chain_run_start == jobwf.pc = "start" /\ create_chain_record

\* the job up to the submission of its prompt, the steps of the chain up to
\* the start of their child workflow
NextSelect ==
    \/ job_run_start
    \/ \E s \in Strategies, o \in Observations, c \in Addresses :
          job_select_attempt(s, o, c)
    \/ job_select_returns
    \/ job_select_raises
    \/ queue_prompt
    \/ chain_run_start
    \/ update_level_returns(TRUE)
    \/ update_completed_returns(TRUE)
    \/ \E s \in Steps : evaluate_chain_condition(s, FALSE, TRUE)
    \/ \E s \in Steps : resolve_chain_templates(s)
    \/ \E s \in Steps : apply_workflow_parameters(s)
    \/ \E s \in Steps, o \in Observations :
          step_select_attempt(s, o)
    \/ \E s \in Steps : step_select_returns(s)
    \/ \E s \in Steps : step_select_raises(s)
    \/ \E s \in Steps : transfer_artifacts(s)
    \/ \E s \in Steps : create_workflow_record(s)
    \/ gather_returns


(***************************************************************************)
(* The artifact store: download_and_store_artifacts and                    *)
(* download_and_store_images write each output file of a prompt into       *)
(* image_storage.storage_dir under a name made of the first 8 hex digits   *)
(* of a uuid4 and the extension of the original file, and then INSERT the  *)
(* Artifact row, whose local_filename column is UNIQUE.                    *)
(***************************************************************************)
\* number of values uuid4().hex[:8] takes in the model
NumHex == 2

\* number of distinct file contents
NumFileData == 2

\* number of files the activities write in one behaviour
MaxSaved == 3

\* uuid.uuid4().hex[:8]: 8 hex digits, drawn afresh by every call
Hex8 == 1..NumHex

\* the output files of a prompt: <<stem, suffix>> of file_info['filename']
OutputFiles == {<<"ComfyUI_00001_", ".png">>, <<"ComfyUI_00002_", ".png">>,
                <<"clip_00001", ".mp4">>}

\* Path(filename).suffix
suffix(filename) == filename[2]

\* f"{uuid.uuid4().hex[:8]}{file_ext}"
unique_filename(hex, filename) == <<hex, suffix(filename)>>

LocalFilenames == {unique_filename(h, f) : h \in Hex8, f \in OutputFiles}

\* the Artifact row, as far as the store is concerned
ArtifactRow(filename, local_filename, file_size) ==
    [filename |-> filename, local_filename |-> local_filename,
     file_size |-> file_size]

\* one write of an activity: the name, the bytes, and what stood there before
Saved(local_filename, file_data, replaced) ==
    [local_filename |-> local_filename, file_data |-> file_data,
     replaced |-> replaced]

IdleStore ==
    /\ storage_dir = [n \in LocalFilenames |-> NULL]
    /\ artifact_rows = {}
    /\ saved = <<>>

\* local_filename = Column(String, nullable=False, unique=True): the INSERT
\* of a second row of the same local_filename raises IntegrityError
local_filename_taken(rows, local_filename) ==
    \E r \in rows : r.local_filename = local_filename

\* local_path.write_bytes(file_data): creates the file, or truncates and
\* rewrites the file that is there
write_bytes(local_filename, file_data) ==
    /\ saved' = Append(saved, Saved(local_filename, file_data,
                                    storage_dir[local_filename]))
    /\ storage_dir' = [storage_dir EXCEPT ![local_filename] = file_data]

\* one iteration of the loop of download_and_store_artifacts over one
\* file_info: the file is written, then the row is inserted; IntegrityError
\* propagates (the session rolls back, the activity fails) after the write
download_and_store_artifacts(filename, hex, file_data) ==
    LET local_filename == unique_filename(hex, filename) IN
    /\ Len(saved) < MaxSaved
    /\ write_bytes(local_filename, file_data)
    /\ artifact_rows' =
         IF local_filename_taken(artifact_rows, local_filename)
         THEN artifact_rows
         ELSE artifact_rows
              \cup {ArtifactRow(filename, local_filename, file_data)}
    /\ UNCHANGED exceptSt

\* one iteration of the loop of download_and_store_images: the row is
\* inserted only when workflow_id is given, and an error of the INSERT is
\* logged and the loop continues
download_and_store_images(has_workflow_id, filename, hex, file_data) ==
    LET local_filename == unique_filename(hex, filename) IN
    /\ Len(saved) < MaxSaved
    /\ write_bytes(local_filename, file_data)
    /\ artifact_rows' =
         IF has_workflow_id
            /\ ~local_filename_taken(artifact_rows, local_filename)
         THEN artifact_rows
              \cup {ArtifactRow(filename, local_filename, file_data)}
         ELSE artifact_rows
    /\ UNCHANGED exceptSt

NextStore ==
    \/ \E f \in OutputFiles, h \in Hex8, d \in 1..NumFileData :
          download_and_store_artifacts(f, h, d)
    \/ \E w \in BOOLEAN, f \in OutputFiles, h \in Hex8, d \in 1..NumFileData :
          download_and_store_images(w, f, h, d)

(***************************************************************************)
(* ChainExecutorWorkflow._wait_for_approval of the gateway variant         *)
(* (temporal_gateway/workflows/chain/workflow.py), as one call with the    *)
(* approval configuration of a step, and the signal handler                *)
(* approval_decision_signal that runs while the call waits.                *)
(***************************************************************************)
\* number of signals sent to the workflow during one call
MaxSignals == 2

\* the largest max_retries of an approval configuration
MaxGateRetries == 1

\* the largest number of artifact ids given to the call
MaxArtifactIds == 1

\* approval_config with the defaults of approval_config.get(...)
ApprovalConfig(on_rejected, max_retries, timeout_action) ==
    [on_rejected |-> on_rejected, max_retries |-> max_retries,
     timeout_action |-> timeout_action]

DefaultApprovalConfig == ApprovalConfig("stop", 0, "auto_reject")

\* what the call has returned or raised
NoOutcome == [kind |-> "none"]

Returned(decision) == [kind |-> "returned", decision |-> decision]

Raised(message) == [kind |-> "raised", message |-> message]

\* the call: its position, self.approval_decision, the local retry_count,
\* the argument artifact_ids (its length), the approval requests it created,
\* the signals delivered, whether wait_condition timed out, and its outcome
WaitCall(pc, ids) ==
    [pc |-> pc, approval_decision |-> "None", retry_count |-> 0,
     artifact_ids |-> ids, requests |-> 0, signalled |-> 0,
     timed_out |-> FALSE, outcome |-> NoOutcome]

IdleWait ==
    /\ approval_config = DefaultApprovalConfig
    /\ wait = WaitCall("idle", 0)

\* the call is entered with the approval configuration of the step
InitWait ==
    /\ approval_config \in
          {ApprovalConfig(r, m, t) : r \in {"stop", "skip", "regenerate"},
                                     m \in 0..MaxGateRetries,
                                     t \in {"auto_reject", "auto_approve"}}
    /\ wait \in {WaitCall("loop", n) : n \in 0..MaxArtifactIds}

\* head of `while True`: the approval state is reset; without an artifact
\* the call returns approved, otherwise create_approval_request_activity is
\* called
reset_approval_state ==
    /\ wait.pc = "loop"
    /\ wait' = IF wait.artifact_ids = 0
                  THEN [wait EXCEPT !.approval_decision = "None",
                                    !.pc = "done",
                                    !.outcome = Returned("approved")]
                  ELSE [wait EXCEPT !.approval_decision = "None",
                                    !.pc = "create_approval_request"]
    /\ UNCHANGED <<approval_config, exceptWa>>

\* create_approval_request_activity returns the new request; the call waits
\* for the decision
create_approval_request_activity ==
    /\ wait.pc = "create_approval_request"
    /\ wait' = [wait EXCEPT !.requests = @ + 1, !.pc = "wait_condition"]
    /\ UNCHANGED <<approval_config, exceptWa>>

\* approval_decision_signal: the handler stores the decision
approval_signal(decision) ==
    /\ wait.pc \notin {"idle", "done"}
    /\ wait.signalled < MaxSignals
    /\ wait' = [wait EXCEPT !.approval_decision = decision,
                            !.signalled = @ + 1]
    /\ UNCHANGED <<approval_config, exceptWa>>

\* the branch of a rejection: regenerate while retry_count < max_retries,
\* otherwise an Exception, for on_rejected == 'skip' as for 'stop'
on_rejection(config, retry_count) ==
    IF config.on_rejected = "regenerate" /\ retry_count < config.max_retries
       THEN Returned("rejected")
    ELSE IF config.on_rejected = "skip"
       THEN Raised("skipped due to approval rejection")
    ELSE Raised("stopped due to approval rejection")

\* wait_condition returns: a decision was stored
wait_condition_returns ==
    /\ wait.pc = "wait_condition"
    /\ wait.approval_decision # "None"
    /\ wait' = IF wait.approval_decision = "approved"
                  THEN [wait EXCEPT !.pc = "done",
                                    !.outcome = Returned("approved")]
                  ELSE [wait EXCEPT
                          !.pc = "done",
                          !.retry_count =
                             IF approval_config.on_rejected = "regenerate"
                                /\ @ < approval_config.max_retries
                                THEN @ + 1 ELSE @,
                          !.outcome = on_rejection(approval_config,
                                                   wait.retry_count)]
    /\ UNCHANGED <<approval_config, exceptWa>>

\* the branch of `except TimeoutError`
on_timeout(config) ==
    IF config.timeout_action = "auto_approve"
       THEN Returned("approved")
       ELSE Raised("timeout - no approval received")

\* wait_condition raises TimeoutError: no decision within timeout_hours
wait_condition_timeout ==
    /\ wait.pc = "wait_condition"
    /\ wait.approval_decision = "None"
    /\ wait' = [wait EXCEPT !.pc = "done", !.timed_out = TRUE,
                            !.outcome = on_timeout(approval_config)]
    /\ UNCHANGED <<approval_config, exceptWa>>

\* what becomes of the step of the call: an exception raised in the `try` of
\* _execute_step is turned into the failed StepResult by its handler
step_status(outcome) ==
    IF outcome.kind = "raised" THEN "failed"
    ELSE IF outcome.decision = "approved" THEN "approved"
    ELSE "regenerate"

NextWait ==
    \/ reset_approval_state
    \/ create_approval_request_activity
    \/ \E d \in {"approved", "rejected"} : approval_signal(d)
    \/ wait_condition_returns
    \/ wait_condition_timeout

(***************************************************************************)
(* update_artifact_latest_flag commit by commit: with is_latest=True and   *)
(* a job row, the call unsets is_latest on the peers, then calls           *)
(* update_workflow_latest_artifact, which commits the session, and only    *)
(* then assigns artifact.is_latest and commits again. `artifacts` and      *)
(* `workflows` are the committed rows, which every other session reads and *)
(* writes between the two commits.                                         *)
(***************************************************************************)
\* the job of an artifact row
workflow_of(artifact_id) ==
    (CHOOSE a \in artifacts : a.id = artifact_id).workflow_id

\* create_artifact(is_latest=True): one commit
create_latest_artifact(w, version, parent) ==
    /\ create_artifact(w, version, TRUE, parent)

\* update_artifact_latest_flag that commits once: is_latest=False, or the job
\* row is missing and update_workflow_latest_artifact returns None
update_flag_one_commit(artifact_id, is_latest) ==
    /\ flag_call = NoFlagCall
    /\ get_artifact(artifact_id) # {}
    /\ ~is_latest \/ ~get_workflow(workflow_of(artifact_id))
    /\ update_artifact_latest_flag(artifact_id, is_latest)

\* update_artifact_latest_flag(is_latest=True), up to the commit inside
\* update_workflow_latest_artifact: the peers are unset and the job names the
\* artifact, whose own flag is not yet written
commit_peers_and_reference(artifact_id) ==
    /\ flag_call = NoFlagCall
    /\ get_artifact(artifact_id) # {}
    /\ get_workflow(workflow_of(artifact_id))
    /\ artifacts' = UnsetLatest(artifacts, workflow_of(artifact_id), artifact_id)
    /\ workflows' = [workflows EXCEPT
          ![workflow_of(artifact_id)].latest_artifact_id = artifact_id]
    /\ flag_call' = [pc |-> "set_flag", artifact_id |-> artifact_id]
    /\ UNCHANGED <<nextArtifactId, fk_enforced, exceptDbTx>>

\* the rest of the call: artifact.is_latest = True and the second commit; the
\* row is loaded again after the first commit, the call fails without a write
\* when another session has deleted it
commit_flag ==
    /\ flag_call.pc = "set_flag"
    /\ artifacts' = {IF a.id = flag_call.artifact_id
                        THEN [a EXCEPT !.is_latest = TRUE]
                        ELSE a : a \in artifacts}
    /\ flag_call' = NoFlagCall
    /\ UNCHANGED <<workflows, nextArtifactId, fk_enforced, exceptDbTx>>

NextDBCommits ==
    \/ \E w \in JobIds : create_workflow(w)
    \/ \E w \in JobIds, v \in 1..MaxVersion, p \in {NULL} \cup ArtifactIds :
          create_latest_artifact(w, v, p)
    \/ \E a \in ArtifactIds, l \in BOOLEAN : update_flag_one_commit(a, l)
    \/ \E a \in ArtifactIds : commit_peers_and_reference(a)
    \/ commit_flag

\* ---------------------------------------------------------------------------
\* Template resolution: temporal_sdk/chains/interpreter.py and the activity
\* resolve_chain_templates
\* ---------------------------------------------------------------------------
NumTemplateSteps == 2
NumParameters == 2

TemplateSteps == 1..NumTemplateSteps
ParameterKeys == 1..NumParameters
OutputKeys == {"video", "image"}
OutputTexts == {"out.mp4", "512"}

\* a parameter value: a string without template markers, the string
\* "{{ step<step>.output.<key> }}", or a list of parameter values
Literal(text) == [kind |-> "str", text |-> text]
Template(step, key) == [kind |-> "template", step |-> step, key |-> key]
ListOf(items) == [kind |-> "list", items |-> items]

ScalarValues ==
    {Literal("a.png")} \cup {Template(s, k) : s \in TemplateSteps, k \in OutputKeys}
ParameterValues == ScalarValues \cup {ListOf(<<v>>) : v \in ScalarValues}

\* an entry of step_results: a StepResult whose output is a dict or None; a
\* step without an entry
StepEntry(has_output, output) ==
    [present |-> TRUE, has_output |-> has_output, output |-> output]
NoEntry == [present |-> FALSE]
EmptyDict == [k \in {} |-> ""]
Outputs == UNION {[K -> OutputTexts] : K \in SUBSET OutputKeys}
StepEntries ==
    {NoEntry, StepEntry(FALSE, EmptyDict)} \cup {StepEntry(TRUE, o) : o \in Outputs}

\* context[step_id] = {"output": result.output or {}, ...} for every entry
build_execution_context(results) ==
    [s \in {t \in DOMAIN results : results[t].present} |->
        [output |-> IF results[s].has_output
                       THEN results[s].output ELSE EmptyDict]]

\* template.render(**context) of "{{ step.output.key }}" in an Environment
\* with the default Undefined: an attribute of an undefined name raises
\* UndefinedError, an undefined attribute of a defined value renders as ''
UndefinedError == [type |-> "UndefinedError"]
Rendered(text) == [type |-> "rendered", text |-> text]
render(step, key, context) ==
    IF step \notin DOMAIN context
       THEN UndefinedError
       ELSE IF key \notin DOMAIN context[step].output
               THEN Rendered("")
               ELSE Rendered(context[step].output[key])

\* result.isdigit() -> int(result); float(result) fails for the other texts
isdigit(text) == text \in {"512"}
int(text) == CASE text = "512" -> 512
coerce(text) ==
    IF isdigit(text) THEN [type |-> "int", value |-> int(text)]
                     ELSE [type |-> "str", text |-> text]

RECURSIVE resolve_value(_, _)
resolve_value(value, context) ==
    CASE value.kind = "str" -> [type |-> "str", text |-> value.text]
      [] value.kind = "template" ->
            LET rendered == render(value.step, value.key, context)
            IN  IF rendered = UndefinedError THEN UndefinedError
                                           ELSE coerce(rendered.text)
      [] value.kind = "list" ->
            LET items == [i \in DOMAIN value.items |->
                             resolve_value(value.items[i], context)]
            IN  IF \E i \in DOMAIN items : items[i] = UndefinedError
                   THEN UndefinedError
                   ELSE [type |-> "list", items |-> items]

\* the outcome of resolve_templates: the resolved dict, or
\* TemplateResolutionError for the first parameter whose value raises
Resolved(resolved) == [type |-> "resolved", resolved |-> resolved]
TemplateResolutionError(key) == [type |-> "TemplateResolutionError", key |-> key]
NotResolved == [type |-> "none"]

resolve_templates(parameters, context) ==
    LET resolved == [key \in DOMAIN parameters |->
                        resolve_value(parameters[key], context)]
        failing == {key \in DOMAIN parameters : resolved[key] = UndefinedError}
    IN  IF failing # {}
           THEN TemplateResolutionError(CHOOSE key \in failing :
                                           \A other \in failing : key <= other)
           ELSE Resolved(resolved)

NoResolution == [outcome |-> NotResolved]
IdleTemplates == resolution = NoResolution

InitTemplates ==
    resolution \in [parameters : [ParameterKeys -> ParameterValues],
                    step_results : [TemplateSteps -> StepEntries],
                    outcome : {NotResolved}]

\* the activity resolve_chain_templates(parameters, step_results)
resolve_chain_templates_activity ==
    /\ resolution # NoResolution
    /\ resolution.outcome = NotResolved
    /\ resolution' =
          [resolution EXCEPT !.outcome =
              resolve_templates(resolution.parameters,
                                build_execution_context(resolution.step_results))]
    /\ UNCHANGED exceptTp

NextTemplates == resolve_chain_templates_activity

(***************************************************************************)
(* Several _wait_for_approval calls of the steps of one level, which       *)
(* asyncio.gather runs concurrently in one gateway ChainExecutorWorkflow:  *)
(* they share self.approval_decision and the one signal handler            *)
(* approval_decision_signal, whose arguments name no step.                 *)
(***************************************************************************)
NumGateSteps == 2

GateSteps == 1..NumGateSteps

\* one call: its position and what it returned or raised
GateCall(pc, outcome) == [pc |-> pc, outcome |-> outcome]

\* a signal the approval service sent after a decision on the request of
\* `step`; `waiting`: the call of the step had not ended when it was sent
SentSignal(step, decision, waiting) ==
    [step |-> step, decision |-> decision, waiting |-> waiting]

IdleGateCalls ==
    /\ shared_decision = "None"
    /\ gate_calls = [s \in GateSteps |-> GateCall("idle", NoOutcome)]
    /\ sent = {}

\* every step of the level has an artifact and enters its call
InitGateCalls ==
    /\ shared_decision = "None"
    /\ gate_calls = [s \in GateSteps |-> GateCall("loop", NoOutcome)]
    /\ sent = {}

\* the code after wait_condition, with the default approval configuration
after_wait(decision) ==
    IF decision = "approved" THEN Returned("approved")
                             ELSE on_rejection(DefaultApprovalConfig, 0)

\* head of `while True` in the call of step s: self.approval_decision = None,
\* then create_approval_request_activity is scheduled
gate_reset(s) ==
    /\ gate_calls[s].pc = "loop"
    /\ shared_decision' = "None"
    /\ gate_calls' = [gate_calls EXCEPT ![s].pc = "create_approval_request"]
    /\ UNCHANGED <<sent, exceptPw>>

\* the activity writes the pending approval request of step s; the token is
\* usable from now on, the result has not reached the workflow yet
gate_request_created(s) ==
    /\ gate_calls[s].pc = "create_approval_request"
    /\ gate_calls' = [gate_calls EXCEPT ![s].pc = "request_created"]
    /\ UNCHANGED <<shared_decision, sent, exceptPw>>

\* the result of the activity reaches the workflow: wait_condition is called
\* and returns at once when its condition already holds
gate_wait_condition(s) ==
    /\ gate_calls[s].pc = "request_created"
    /\ gate_calls' = IF shared_decision # "None"
                   THEN [gate_calls EXCEPT ![s] = GateCall("done",
                                                      after_wait(shared_decision))]
                   ELSE [gate_calls EXCEPT ![s].pc = "wait_condition"]
    /\ UNCHANGED <<shared_decision, sent, exceptPw>>

\* the pending request of step s is decided and the service signals the
\* workflow: the handler stores the decision, and every call whose
\* wait_condition now holds is resumed in the same workflow task
gate_signal(s, decision) ==
    /\ gate_calls[s].pc \in {"request_created", "wait_condition", "done"}
    /\ \A x \in sent : x.step # s
    /\ shared_decision' = decision
    /\ sent' = sent \cup {SentSignal(s, decision, gate_calls[s].pc # "done")}
    /\ gate_calls' = [t \in GateSteps |->
                    IF gate_calls[t].pc = "wait_condition"
                       THEN GateCall("done", after_wait(decision))
                       ELSE gate_calls[t]]
    /\ UNCHANGED exceptPw

\* wait_condition of step s raises TimeoutError after timeout_hours
gate_timeout(s) ==
    /\ gate_calls[s].pc = "wait_condition"
    /\ shared_decision = "None"
    /\ gate_calls' = [gate_calls EXCEPT ![s] = GateCall("done",
                                              on_timeout(DefaultApprovalConfig))]
    /\ UNCHANGED <<shared_decision, sent, exceptPw>>

NextGateCalls ==
    \/ \E s \in GateSteps : gate_reset(s)
    \/ \E s \in GateSteps : gate_request_created(s)
    \/ \E s \in GateSteps : gate_wait_condition(s)
    \/ \E s \in GateSteps, d \in {"approved", "rejected"} : gate_signal(s, d)
    \/ \E s \in GateSteps : gate_timeout(s)

(***************************************************************************)
(* The attempts of download_and_store_artifacts for the output files of    *)
(* one job: ComfyUIWorkflow.run schedules the activity with                *)
(* RetryPolicy(maximum_attempts=3); an attempt walks the list from its     *)
(* start, and create_artifact commits the row of each file as it goes.     *)
(***************************************************************************)
NumOutputFiles == 2

\* the output files get_server_output_files reported for the prompt
output_files ==
    SubSeq(<<<<"ComfyUI_00001_", ".png">>, <<"clip_00001", ".mp4">>,
             <<"ComfyUI_00002_", ".png">>>>, 1, NumOutputFiles)

\* the activity: the attempt that runs, the index of the file_info its loop
\* is at, and whether it runs, has returned (succeeded) or has failed for good
Download(pc, attempt, position) ==
    [pc |-> pc, attempt |-> attempt, position |-> position]

NoDownload == Download("idle", 0, 0)

IdleDownload == download = NoDownload

InitDownload == download = Download("running", 1, 1)

\* the attempt raises: the engine starts the next attempt at the head of the
\* list, or the activity fails after the last attempt
attempt_raises ==
    IF download.attempt < MaxDownloadAttempts
       THEN Download("running", download.attempt + 1, 1)
       ELSE Download("failed", download.attempt, download.position)

\* one iteration of the loop: the file is downloaded and written under a
\* fresh name, and create_artifact inserts and commits its row; the
\* IntegrityError of a taken local_filename ends the attempt after the write.
\* After the last file the activity returns stored_artifacts.
download_and_persist_file(hex, file_data) ==
    LET filename == output_files[download.position]
        local_filename == unique_filename(hex, filename)
    IN  /\ download.pc = "running"
        /\ Len(saved) < MaxSaved
        /\ write_bytes(local_filename, file_data)
        /\ IF local_filename_taken(artifact_rows, local_filename)
              THEN /\ UNCHANGED artifact_rows
                   /\ download' = attempt_raises
              ELSE /\ artifact_rows' = artifact_rows
                         \cup {ArtifactRow(filename, local_filename, file_data)}
                   /\ download' =
                         IF download.position = Len(output_files)
                            THEN Download("succeeded", download.attempt,
                                          download.position)
                            ELSE [download EXCEPT !.position = @ + 1]
        /\ UNCHANGED exceptStDl

\* client.download_file raises for the file the loop is at (the backend does
\* not answer, or answers with an error status)
download_file_raises ==
    /\ download.pc = "running"
    /\ download' = attempt_raises
    /\ UNCHANGED <<stVars, exceptStDl>>

NextDownload ==
    \/ \E h \in Hex8, d \in 1..NumFileData : download_and_persist_file(h, d)
    \/ download_file_raises

(***************************************************************************)
(* The backend of one job.  A chain step (ChainExecutorWorkflow            *)
(* ._execute_step, steps 4 to 7) selects target_server, uploads the        *)
(* artifacts of its dependencies to it, records it in the Job row and      *)
(* passes it to the child ComfyUIWorkflow, whose run() uses                *)
(* request.server_address when it is given and selects a server itself     *)
(* otherwise (a job started without a chain).                              *)
(***************************************************************************)
MaxDependencies == 3

\* RetryPolicy(maximum_attempts=2) of execute_child_workflow in _execute_step
MaxChildRuns == 2

\* the step and its job: position, the step's target_server, the dependencies
\* still to transfer, the servers files were uploaded to, server_address of
\* the Job row, request.server_address of the child, its _server_address,
\* the run of the child and the attempt of execute_and_track_workflow, and
\* the servers the workflow JSON was posted to
Route(kind, pc, dependencies_left) ==
    [kind |-> kind, pc |-> pc, target_server |-> NULL,
     dependencies_left |-> dependencies_left, uploaded_to |-> {},
     row_server_address |-> NULL, request_server_address |-> NULL,
     _server_address |-> NULL, runs |-> 0, attempt |-> 0, submitted_on |-> {}]

NoRoute == Route("none", "idle", 0)

IdleRoute == route = NoRoute

\* a chain step about to pre-select its server, or a job started on its own
InitRoute ==
    route \in {Route("step", "select_best_server", d) : d \in 0..MaxDependencies}
                 \cup {[Route("job", "run", 0) EXCEPT !.runs = 1]}

\* 4. select_best_server("least_loaded") returns the address of a server
step_preselects(address) ==
    /\ route.pc = "select_best_server"
    /\ route' = [route EXCEPT !.target_server = address,
                              !.pc = IF route.dependencies_left > 0
                                        THEN "transfer_artifacts"
                                        ELSE "create_workflow_record"]
    /\ UNCHANGED exceptRt

\* 4. select_best_server raises maximum_attempts times: the step fails
step_preselect_raises ==
    /\ route.pc = "select_best_server"
    /\ route' = [route EXCEPT !.pc = "step_failed"]
    /\ UNCHANGED exceptRt

\* 5. transfer_artifacts_from_storage(dep_workflow_id, target_server, ...)
\* uploads the artifacts of one dependency through ComfyUIClient(target_server)
step_transfers ==
    /\ route.pc = "transfer_artifacts"
    /\ route' = [route EXCEPT !.uploaded_to = @ \cup {route.target_server},
                              !.dependencies_left = @ - 1,
                              !.pc = IF route.dependencies_left > 1
                                        THEN "transfer_artifacts"
                                        ELSE "create_workflow_record"]
    /\ UNCHANGED exceptRt

\* 5. the transfer raises maximum_attempts times, after `uploaded` of its
\* uploads reached the server: the step fails
step_transfer_raises(uploaded) ==
    /\ route.pc = "transfer_artifacts"
    /\ route' = [route EXCEPT
                    !.uploaded_to = IF uploaded THEN @ \cup {route.target_server}
                                                ELSE @,
                    !.pc = "step_failed"]
    /\ UNCHANGED exceptRt

\* 6. create_workflow_record(node.workflow, target_server, ...)
step_creates_record ==
    /\ route.pc = "create_workflow_record"
    /\ route' = [route EXCEPT !.row_server_address = route.target_server,
                              !.pc = "execute_child_workflow"]
    /\ UNCHANGED exceptRt

\* 7. execute_child_workflow(ComfyUIWorkflow.run,
\* WorkflowExecutionRequest(server_address=target_server, ...))
step_starts_child ==
    /\ route.pc = "execute_child_workflow"
    /\ route' = [route EXCEPT !.request_server_address = route.target_server,
                              !.runs = 1, !.pc = "run"]
    /\ UNCHANGED exceptRt

\* ComfyUIWorkflow.run, step 1, with a server selection that ignores the
\* request
child_run_always_selects ==
    /\ route.pc = "run"
    /\ route' = [route EXCEPT !.pc = "child_select_best_server"]
    /\ UNCHANGED exceptRt

\* ComfyUIWorkflow.run, step 1: `if request.server_address:` the pre-selected
\* server is used, otherwise select_best_server is scheduled
child_run ==
    /\ route.pc = "run"
    /\ route' = IF route.request_server_address # NULL
                   THEN [route EXCEPT
                            !._server_address = route.request_server_address,
                            !.attempt = 1,
                            !.pc = "execute_and_track_workflow"]
                   ELSE [route EXCEPT !.pc = "child_select_best_server"]
    /\ UNCHANGED exceptRt

\* select_best_server(request.strategy) of the child returns an address
child_selects(address) ==
    /\ route.pc = "child_select_best_server"
    /\ route' = [route EXCEPT !._server_address = address, !.attempt = 1,
                              !.pc = "execute_and_track_workflow"]
    /\ UNCHANGED exceptRt

\* an attempt of execute_and_track_workflow(self._server_address, ...) posts
\* the workflow through ComfyUIClient(server_address)
child_submits ==
    /\ route.pc = "execute_and_track_workflow"
    /\ route' = [route EXCEPT !.submitted_on = @ \cup {route._server_address},
                              !.pc = "tracking"]
    /\ UNCHANGED exceptRt

\* the attempt returns its result and run() comes to its end
child_returns ==
    /\ route.pc = "tracking"
    /\ route' = [route EXCEPT !.pc = "returned"]
    /\ UNCHANGED exceptRt

\* the attempt is lost: the engine schedules the next one with the same
\* arguments, or the activity fails and run() returns the failed result
child_attempt_lost ==
    /\ route.pc = "tracking"
    /\ route' = IF route.attempt < MaxExecuteAttempts
                   THEN [route EXCEPT !.attempt = @ + 1,
                                      !.pc = "execute_and_track_workflow"]
                   ELSE [route EXCEPT !.pc = "returned"]
    /\ UNCHANGED exceptRt

\* the child workflow of a step fails as a whole and the engine runs it
\* again with the same WorkflowExecutionRequest
child_rerun ==
    /\ route.kind = "step"
    /\ route.pc \in {"run", "child_select_best_server",
                     "execute_and_track_workflow", "tracking"}
    /\ route.runs < MaxChildRuns
    /\ route' = [route EXCEPT !.runs = @ + 1, !._server_address = NULL,
                              !.attempt = 0, !.pc = "run"]
    /\ UNCHANGED exceptRt

NextRoute ==
    \/ \E a \in Addresses : step_preselects(a)
    \/ step_preselect_raises
    \/ step_transfers
    \/ \E u \in BOOLEAN : step_transfer_raises(u)
    \/ step_creates_record
    \/ step_starts_child
    \/ child_run
    \/ \E a \in Addresses : child_selects(a)
    \/ child_submits
    \/ child_returns
    \/ child_attempt_lost
    \/ child_rerun
(***************************************************************************)
(* Specifications                                                          *)
(***************************************************************************)
IdleDB ==
    /\ artifacts = {}
    /\ workflows = [w \in JobIds |-> Workflow(FALSE, NULL)]
    /\ nextArtifactId = 1
    /\ fk_enforced = FALSE
    /\ flag_call = NoFlagCall

IdleJob ==
    /\ request = [server_address |-> FALSE, workflow_db_id |-> FALSE]
    /\ jobwf = [pc |-> "start", _status |-> "initializing",
                _server_address |-> NULL, _prompt_id |-> NULL,
                _cancelled |-> FALSE, attempt |-> 0, _error |-> "none"]
    /\ act = NoAttempt
    /\ queue = 0
    /\ job_result = NoJobResult
    /\ prompt_history = [p \in PromptIds |-> "none"]
    /\ activity_log = {}
    /\ job_row = NoJobRow

IdleChain ==
    /\ executor = "sdk"
    /\ plan = LevelsOf({})
    /\ ch = [pc |-> "create_chain_record", _status |-> "initializing",
             _current_level |-> 0, _chain_id |-> NULL, error |-> NoError]
    /\ step_results = [s \in Steps |-> NoStepResult]
    /\ workflow_ids = {}
    /\ tasks = [s \in Steps |-> IdleTask]
    /\ step_args = [s \in Steps |-> NoArgs]
    /\ nodes = [s \in Steps |-> NoApproval]
    /\ IdleGate
    /\ chain_row = NoChain
    /\ detached = {}
    /\ cancel_requested = FALSE
    /\ chain_result = NoChainResult

InitSpecDB == InitDB /\ IdleApproval /\ InitTracker /\ IdleJob /\ IdleChain
    /\ IdlePlanner /\ IdleRegistry /\ IdleTransfer /\ IdleBalancer /\ IdleStore /\ IdleWait
    /\ IdleTemplates
    /\ IdleGateCalls
    /\ IdleDownload
    /\ IdleRoute

SpecDB == InitSpecDB /\ [][NextDB]_vars

InitSpecApproval == InitApproval /\ IdleDB /\ InitTracker /\ IdleJob /\ IdleChain
    /\ IdlePlanner /\ IdleRegistry /\ IdleTransfer /\ IdleBalancer /\ IdleStore /\ IdleWait
    /\ IdleTemplates
    /\ IdleGateCalls
    /\ IdleDownload
    /\ IdleRoute

SpecApproval == InitSpecApproval /\ [][NextApproval]_vars

InitSpecApprovalCrud == IdleApproval /\ IdleDB /\ InitTracker /\ IdleJob /\ IdleChain
    /\ IdlePlanner /\ IdleRegistry /\ IdleTransfer /\ IdleBalancer /\ IdleStore /\ IdleWait
    /\ IdleTemplates
    /\ IdleGateCalls
    /\ IdleDownload
    /\ IdleRoute

SpecApprovalCrud == InitSpecApprovalCrud /\ [][NextApprovalCrud]_vars

InitSpecTracker == InitTracker /\ IdleDB /\ IdleApproval /\ IdleJob /\ IdleChain
    /\ IdlePlanner /\ IdleRegistry /\ IdleTransfer /\ IdleBalancer /\ IdleStore /\ IdleWait
    /\ IdleTemplates
    /\ IdleGateCalls
    /\ IdleDownload
    /\ IdleRoute

\* the event loop runs the poll task and track() whenever they can run, and a
\* history request that is sent again and again is answered
SpecTrackerFair ==
    /\ InitSpecTracker /\ [][NextTracker]_vars
    /\ WF_vars(PollStart) /\ WF_vars(PollWake) /\ SF_vars(PollResponseOk)
    /\ WF_vars(TrackReturn)

\* the event loop runs the timer of asyncio.wait_for at the deadline: every
\* await of the two tasks yields to it; nothing is assumed of the tasks, the
\* backend or the connection
SpecTrackerDeadline ==
    InitSpecTracker /\ [][NextTracker]_vars /\ WF_vars(TrackTimeout)

InitSpecJob == InitJob /\ IdleDB /\ IdleApproval /\ InitTracker /\ IdleChain
    /\ IdlePlanner /\ IdleRegistry /\ IdleTransfer /\ IdleBalancer /\ IdleStore /\ IdleWait
    /\ IdleTemplates
    /\ IdleGateCalls
    /\ IdleDownload
    /\ IdleRoute

SpecJob == InitSpecJob /\ [][NextJob]_vars

InitSpecChain == InitChain /\ IdleDB /\ IdleApproval /\ InitTracker /\ IdleJob
    /\ IdlePlanner /\ IdleRegistry /\ IdleTransfer /\ IdleBalancer /\ IdleStore /\ IdleWait
    /\ IdleTemplates
    /\ IdleGateCalls
    /\ IdleDownload
    /\ IdleRoute

SpecChain == InitSpecChain /\ [][NextChain]_vars

InitSpecChainApproval ==
    InitChainApproval /\ IdleDB /\ IdleApproval /\ InitTracker /\ IdleJob
    /\ IdlePlanner /\ IdleRegistry /\ IdleTransfer /\ IdleBalancer /\ IdleStore /\ IdleWait
    /\ IdleTemplates
    /\ IdleGateCalls
    /\ IdleDownload
    /\ IdleRoute

SpecChainApproval == InitSpecChainApproval /\ [][NextChainApproval]_vars

InitSpecPlanner ==
    InitPlanner /\ IdleDB /\ IdleApproval /\ InitTracker /\ IdleJob /\ IdleChain
    /\ IdleRegistry /\ IdleTransfer /\ IdleBalancer /\ IdleStore /\ IdleWait
    /\ IdleTemplates
    /\ IdleGateCalls
    /\ IdleDownload
    /\ IdleRoute

InitSpecRegistry ==
    InitRegistry /\ IdleDB /\ IdleApproval /\ InitTracker /\ IdleJob /\ IdleChain
    /\ IdlePlanner /\ IdleTransfer /\ IdleBalancer /\ IdleStore /\ IdleWait
    /\ IdleTemplates
    /\ IdleGateCalls
    /\ IdleDownload
    /\ IdleRoute

SpecRegistry == InitSpecRegistry /\ [][NextRegistry]_vars

SpecDiscovery == InitSpecRegistry /\ [][NextDiscovery]_vars

InitSpecReject ==
    InitReject /\ IdleDB /\ InitTracker /\ IdleJob /\ IdleChain /\ IdlePlanner
    /\ IdleTransfer /\ IdleBalancer /\ IdleStore /\ IdleWait
    /\ IdleTemplates
    /\ IdleGateCalls
    /\ IdleDownload
    /\ IdleRoute

InitSpecTransfer ==
    InitTransferChain /\ InitTransfer /\ IdleDB /\ IdleApproval /\ InitTracker
    /\ IdleJob /\ IdlePlanner /\ IdleRegistry /\ IdleBalancer /\ IdleStore /\ IdleWait
    /\ IdleTemplates
    /\ IdleGateCalls
    /\ IdleDownload
    /\ IdleRoute

InitSpecBalancer ==
    IdleBalancer /\ IdleDB /\ IdleApproval /\ InitTracker /\ IdleJob /\ IdleChain
    /\ IdlePlanner /\ IdleRegistry /\ IdleTransfer /\ IdleStore /\ IdleWait
    /\ IdleTemplates
    /\ IdleGateCalls
    /\ IdleDownload
    /\ IdleRoute

SpecBalancer == InitSpecBalancer /\ [][NextBalancer]_vars

\* a job that selects its server and a chain of one step per level
InitSelect ==
    /\ InitBalancer
    /\ InitJob /\ ~request.server_address
    /\ InitTransferChain

InitSpecSelect ==
    InitSelect /\ IdleDB /\ IdleApproval /\ InitTracker /\ IdlePlanner
    /\ IdleRegistry /\ IdleTransfer /\ IdleStore /\ IdleWait
    /\ IdleTemplates
    /\ IdleGateCalls
    /\ IdleDownload
    /\ IdleRoute

InitSpecStore ==
    IdleStore /\ IdleDB /\ IdleApproval /\ InitTracker /\ IdleJob /\ IdleChain
    /\ IdlePlanner /\ IdleRegistry /\ IdleTransfer /\ IdleBalancer
    /\ IdleWait
    /\ IdleTemplates
    /\ IdleGateCalls
    /\ IdleDownload
    /\ IdleRoute

InitSpecWait ==
    InitWait /\ IdleDB /\ IdleApproval /\ InitTracker /\ IdleJob /\ IdleChain
    /\ IdlePlanner /\ IdleRegistry /\ IdleTransfer /\ IdleBalancer /\ IdleStore
    /\ IdleTemplates
    /\ IdleGateCalls
    /\ IdleDownload
    /\ IdleRoute

SpecWait == InitSpecWait /\ [][NextWait]_vars

SpecDBCommits == InitSpecDB /\ [][NextDBCommits]_vars

SpecStore == InitSpecStore /\ [][NextStore]_vars

SpecSelect == InitSpecSelect /\ [][NextSelect]_vars

SpecTransfer == InitSpecTransfer /\ [][NextTransfer]_vars

SpecReject == InitSpecReject /\ [][NextReject]_vars

SpecPlanner == InitSpecPlanner /\ [][NextPlanner]_vars

(***************************************************************************)
(* Properties                                                              *)
(***************************************************************************)
\* C1: every job that has at least one artifact has exactly one artifact with
\* is_latest = TRUE, and the job's latest_artifact_id is the id of that artifact.
C1_ExactlyOneLatest ==
    \A w \in JobIds :
        (get_workflow(w) /\ ArtifactsOf(w) # {}) =>
            /\ Cardinality({a \in ArtifactsOf(w) : a.is_latest}) = 1
            /\ \E a \in ArtifactsOf(w) :
                  a.is_latest /\ workflows[w].latest_artifact_id = a.id

\* C2: for one job the backend is given the workflow at most once, whatever
\* attempts of execute_and_track_workflow are retried: no second prompt_id is
\* obtained.
C2_SubmittedAtMostOnce == queue <= 1

InitSpecTemplates ==
    InitTemplates /\ IdleDB /\ IdleApproval /\ InitTracker /\ IdleJob /\ IdleChain
    /\ IdlePlanner /\ IdleRegistry /\ IdleTransfer /\ IdleBalancer /\ IdleStore
    /\ IdleWait
    /\ IdleGateCalls
    /\ IdleDownload
    /\ IdleRoute

SpecTemplates == InitSpecTemplates /\ [][NextTemplates]_vars

InitSpecGateCalls ==
    InitGateCalls /\ IdleDB /\ IdleApproval /\ InitTracker /\ IdleJob /\ IdleChain
    /\ IdlePlanner /\ IdleRegistry /\ IdleTransfer /\ IdleBalancer /\ IdleStore
    /\ IdleWait /\ IdleTemplates
    /\ IdleDownload
    /\ IdleRoute

SpecGateCalls == InitSpecGateCalls /\ [][NextGateCalls]_vars

InitSpecDownload ==
    InitDownload /\ IdleStore /\ IdleDB /\ IdleApproval /\ InitTracker /\ IdleJob
    /\ IdleChain /\ IdlePlanner /\ IdleRegistry /\ IdleTransfer /\ IdleBalancer
    /\ IdleWait /\ IdleTemplates /\ IdleGateCalls
    /\ IdleRoute

SpecDownload == InitSpecDownload /\ [][NextDownload]_vars

InitSpecRoute ==
    InitRoute /\ IdleStore /\ IdleDB /\ IdleApproval /\ InitTracker /\ IdleJob
    /\ IdleChain /\ IdlePlanner /\ IdleRegistry /\ IdleTransfer /\ IdleBalancer
    /\ IdleWait /\ IdleTemplates /\ IdleGateCalls /\ IdleDownload

SpecRoute == InitSpecRoute /\ [][NextRoute]_vars
Terminal == {"approved", "rejected", "cancelled"}

\* C3: for concurrent approve and reject calls on the same token at most one
\* decision signal is sent for the request, and the decision it carries is the
\* terminal status stored in the request's row.
C3_AtMostOneSignal ==
    \A t \in Tokens :
        /\ Len(signals[t]) <= 1
        /\ Len(signals[t]) = 1 => approvals[t].status = signals[t][1].decision

\* an approve and a reject raced on one token: one was signalled, the other refused
C3_Witness ==
    \E t \in Tokens, c1, c2 \in CallIds :
        /\ calls[c1].token = t /\ calls[c1].pc = "done"
        /\ calls[c2].token = t /\ calls[c2].pc = "error"
        /\ {calls[c1].op, calls[c2].op} = {"approve", "reject"}
        /\ Len(signals[t]) = 1

\* C4: once the status of an ApprovalRequest is approved, rejected or cancelled,
\* every later approve / reject / cancel call leaves status, decided_by and
\* decided_at unchanged.
C4_TerminalOnce ==
    [][\A t \in Tokens :
          (approvals[t] # NoRow /\ approvals[t].status \in Terminal) =>
              /\ approvals'[t].status = approvals[t].status
              /\ approvals'[t].decided_by = approvals[t].decided_by
              /\ approvals'[t].decided_at = approvals[t].decided_at]_vars

\* a request decided by one user at an earlier time than now, next to a second
\* request decided otherwise
C4_Witness ==
    \E t1, t2 \in Tokens :
        /\ approvals[t1] # NoRow /\ approvals[t1].status = "approved"
        /\ approvals[t1].decided_by = "alice" /\ approvals[t1].decided_at < now
        /\ approvals[t2] # NoRow /\ approvals[t2].status = "cancelled"

\* the token of the call that c starts in this step
Started(c) == calls[c].pc = "idle" /\ calls'[c].pc # "idle"

Accepted(c) == Started(c) /\ calls'[c].pc \in {"signal", "done"}

\* unknown, already decided, or expired (link_expires_at earlier than now)
InvalidToken(t) ==
    \/ t \notin Tokens
    \/ approvals[t] = NoRow
    \/ approvals[t].status # "pending"
    \/ approvals[t].link_expires_at # NULL /\ approvals[t].link_expires_at < now

RefusedCleanly ==
    \A c \in CallIds :
        /\ (Started(c) /\ InvalidToken(calls'[c].token)) =>
              /\ calls'[c].pc = "error"
              /\ approvals' = approvals
              /\ signals' = signals
        /\ calls[c].pc = "error" => calls'[c] = calls[c]

Matching ==
    /\ history = "success" =>
          ret.status = "SUCCESS" /\ ret.history_data = history
    /\ history \in {"error", "error_nomsg"} =>
          ret.status \in {"ERROR", "INTERRUPTED"}

\* C6: once the backend has recorded the prompt in its history with status
\* success or error, track() eventually returns the matching outcome, whatever
\* the websocket does, unless the deadline elapses first.
C6_EventuallyDefinitive ==
    (history # "none") ~>
        (trackpc = "returned" /\ (ret.error = "timeout" \/ Matching))

\* C7: when a step has ended with status failed, no step of a later level is
\* started, the chain is not recorded as completed, and the result of the
\* chain is failed with an error message.
C7_FailedStepFailsChain ==
    \A s \in Steps :
        (tasks[s].pc = "returned" /\ tasks[s].ret.status = "failed") =>
            /\ \A t \in Steps : level(t) > level(s) => tasks[t].pc = "idle"
            /\ ch._status # "completed"
            /\ chain_row.status # "completed"
            /\ ch.pc = "done" =>
                  /\ chain_result.status = "failed"
                  /\ chain_result.error # NoError
                  /\ chain_row.status = "failed"

\* C8: whenever the status of the chain workflow, of the Chain row or of the
\* returned result is completed, step_results has an entry for every step of
\* the plan and every entry has status completed, failed or skipped.
C8_CompletedHasAllResults ==
    (\/ ch._status = "completed"
     \/ chain_row.status = "completed"
     \/ chain_result.status = "completed") =>
        /\ \A s \in Steps :
              /\ step_results[s] # NoStepResult
              /\ step_results[s].step_id = s
              /\ step_results[s].status \in {"completed", "failed", "skipped"}
        /\ chain_result.status = "completed" =>
              chain_result.step_results = step_results

\* a two-level chain returned completed with a skipped and a completed step
C8_Witness ==
    /\ ch.pc = "done" /\ ch._status = "completed"
    /\ chain_row.status = "completed"
    /\ chain_result.status = "completed"
    /\ get_total_levels = 2
    /\ \E s, t \in Steps :
          /\ chain_result.step_results[s].status = "skipped"
          /\ chain_result.step_results[t].status = "completed"

ChainTerminal == {"completed", "failed", "cancelled"}

\* position of a status in initializing < executing_level_0 < ... < terminal
StatusRank(status) ==
    IF status = "initializing" THEN 0
    ELSE IF status \in ChainTerminal THEN NumSteps + 1
    ELSE 1 + (CHOOSE n \in 0..(NumSteps - 1) : status = executing_level(n))

\* C9: the status of the chain workflow and of the Chain row only advance
\* (initializing, executing_level_0, executing_level_1, ..., terminal), and a
\* status that is completed, failed or cancelled never changes.
C9_StatusOnlyAdvances ==
    [][/\ StatusRank(ch'._status) >= StatusRank(ch._status)
       /\ ch._status \in ChainTerminal => ch'._status = ch._status
       /\ chain_row # NoChain =>
             /\ StatusRank(chain_row'.status) >= StatusRank(chain_row.status)
             /\ chain_row.status \in ChainTerminal =>
                   chain_row'.status = chain_row.status]_vars

\* C10: a failed result of the chain has status failed, an error string, and
\* the StepResult (with its output) of every step that had returned completed
\* when the chain failed.
C10_FailedResultKeepsCompleted ==
    (ch.pc = "done" /\ chain_result.status = "failed") =>
        /\ chain_result.error # NoError
        /\ \A s \in Steps :
              (tasks[s].pc = "returned" /\ tasks[s].ret.status = "completed") =>
                  chain_result.step_results[s] = tasks[s].ret

\* steps of the levels below the level of s
below(s) == {t \in Steps : level(t) < level(s)}

\* C11: no step of a level is started before every step of the levels below
\* has returned its StepResult and the result is stored, and every condition
\* evaluation and template resolution of a step is given exactly the results
\* of the steps of the levels below, never the result of a step of its level.
C11_LevelsStrictlyOrdered ==
    \A s \in Steps :
        tasks[s].pc # "idle" =>
            /\ \A t \in below(s) :
                  tasks[t].pc = "returned" /\ step_results[t] = tasks[t].ret
            /\ \A a \in {step_args[s].condition, step_args[s].templates} :
                  a # <<>> => a[1] = below(s)

\* a step of level 1 is started, its condition was evaluated and its templates
\* were resolved with the result of the step of level 0, and its child
\* workflow is running
C11_Witness ==
    \E s \in Steps :
        /\ level(s) = 1
        /\ step_args[s].condition = <<below(s)>>
        /\ step_args[s].templates = <<below(s)>>
        /\ tasks[s].pc = "execute_child_workflow"

\* the step carries an approval policy that regenerates on rejection
regenerates(s) ==
    nodes[s].requires_approval /\ nodes[s].on_rejected = "regenerate"

\* number of rejections among the decisions sent to the workflow
rejections == Cardinality({i \in 1..Len(decisions) : decisions[i] = "rejected"})

\* C12: a chain has at most one Job row per (chain_id, step_id), and when the
\* output of a step that regenerates on rejection was rejected once and then
\* approved, and every step succeeded, the chain is completed and the Job of
\* that step has exactly 2 artifacts.
C12_RegenerationSameJob ==
    \A s \in Steps :
        /\ job_rows[s] <= 1
        /\ ( /\ regenerates(s) /\ nodes[s].max_retries >= 1
             /\ decisions = <<"rejected", "approved">>
             /\ ch.pc = "done"
             /\ \A t \in Steps : step_results[t].status = "completed" )
           => (chain_result.status = "completed" /\ job_artifacts[s] = 2)

\* C13: over the execution of a step the regeneration loop is entered again
\* at most max_retries times, and only after a rejection.
C13_RegenerationsBounded ==
    \A s \in Steps :
        /\ regenerations[s] <= nodes[s].max_retries
        /\ regenerations[s] <= rejections

\* C14: when the backend's history reports an error for a prompt of the job,
\* the job is never completed: neither get_server_output_files nor a download
\* is scheduled, run() returns a failed result that carries an error, and the
\* Job row the chain step records for it is never completed.
C14_BackendErrorFailsJob ==
    (\E p \in PromptIds : p <= queue /\ prompt_history[p] = "error") =>
        /\ jobwf._status # "completed"
        /\ activity_log = {}
        /\ jobwf.pc \in {"returned", "recorded"} =>
              (job_result.status = "failed" /\ job_result.error # "none")
        /\ job_row # NoJobRow => job_row.status # "completed"

\* the level of the node of step d in the plan, -1 when the plan has no node of d
node_level(d) ==
    IF \E j \in 1..Len(execution_plan.nodes) : execution_plan.nodes[j].step_id = d
       THEN (CHOOSE n \in {execution_plan.nodes[j] : j \in 1..Len(execution_plan.nodes)} :
                n.step_id = d).level
       ELSE -1

\* C15: in every plan produced by create_execution_plan the level of a step is
\* strictly greater than the level of every step named in its depends_on; a
\* step without dependencies has level 0 and any other step has level exactly
\* 1 + the maximum level of its dependencies.
C15_LevelAboveDependencies ==
    interpreter.pc = "returned" =>
        \A i \in 1..Len(execution_plan.nodes) :
            LET node == execution_plan.nodes[i]
                depends_on == chain[node.step_id]
            IN  /\ node.dependencies = depends_on
                /\ \A d \in depends_on :
                      node_level(d) >= 0 /\ node_level(d) < node.level
                /\ depends_on = {} => node.level = 0
                /\ depends_on # {} =>
                      /\ \E d \in depends_on : node.level = 1 + node_level(d)
                      /\ \A d \in depends_on : node.level >= 1 + node_level(d)

\* a plan was returned in which a step at level 2 depends on a step of level 0
\* and on a step of level 1
C15_Witness ==
    /\ interpreter.pc = "returned"
    /\ \E i \in 1..Len(execution_plan.nodes) :
          LET node == execution_plan.nodes[i]
          IN  /\ node.level = 2
              /\ {node_level(d) : d \in chain[node.step_id]} = {0, 1}

\* C16: for every chain without cycles the levels of the produced plan are
\* non-empty, pairwise disjoint, keyed 0..k-1 without gaps, their union is the
\* set of step ids of the chain, and the plan has exactly one node per step.
C16_LevelsPartitionSteps ==
    (interpreter.pc = "returned"
        /\ ~\E S \in SUBSET ChainSteps \ {{}} : \A s \in S : chain[s] \cap S # {}) =>
        LET levels == execution_plan.levels
            nodes_ == execution_plan.nodes
        IN  /\ \E k \in 1..NumChainSteps : DOMAIN levels = 0..(k - 1)
            /\ \A a \in DOMAIN levels : levels[a] # {}
            /\ \A a, b \in DOMAIN levels : a # b => levels[a] \cap levels[b] = {}
            /\ UNION {levels[a] : a \in DOMAIN levels} = ChainSteps
            /\ \A s \in ChainSteps :
                  Cardinality({j \in 1..Len(nodes_) : nodes_[j].step_id = s}) = 1
            /\ \A j \in 1..Len(nodes_) : nodes_[j].step_id \in levels[nodes_[j].level]

\* a plan of two levels was returned, the first one with two steps
C16_Witness ==
    /\ interpreter.pc = "returned"
    /\ DOMAIN execution_plan.levels = {0, 1}
    /\ Cardinality(execution_plan.levels[0]) = 2
    /\ Len(execution_plan.nodes) = NumChainSteps

\* C17: planning fails with ChainValidationError whenever the chain has a
\* dependency cycle (a step depending on itself included) or a depends_on that
\* names the id of no step of the chain; then no chain workflow is started and
\* no Chain or Job row is written.
C17_InvalidChainRejected ==
    ((\E S \in SUBSET ChainSteps \ {{}} : \A s \in S : chain[s] \cap S # {})
        \/ (\E s \in ChainSteps : ~(chain[s] \subseteq ChainSteps))) =>
        /\ interpreter.pc \in {"validate_dependencies", "build_dag", "raised"}
        /\ interpreter.pc = "raised" =>
              interpreter.error \in {"ChainValidationError: depends on unknown step",
                                     "ChainValidationError: circular dependencies"}
        /\ ~chain_engine.started
        /\ chain_engine.response # "started"
        /\ chain_row = NoChain
        /\ \A s \in Steps : job_rows[s] = 0

\* the endpoint answered 500 for a chain whose only defect is a step that
\* depends on itself
C17_Witness ==
    /\ \E s \in ChainSteps : s \in chain[s]
    /\ \A s \in ChainSteps : chain[s] \subseteq {s}
    /\ interpreter.pc = "raised"
    /\ interpreter.error = "ChainValidationError: circular dependencies"
    /\ chain_engine.response = "500"

\* the keys listed in the override file of the template
listed == {p.key : p \in override_file.parameters}

\* the keys of the request the endpoint has just answered
requested == {api'.overrides[i] : i \in 1..Len(api'.overrides)}

\* C18: apply_overrides rejects any override key that is not a parameter listed
\* in the template's override file with a validation error naming that key and
\* returns no bound workflow; after the rejection no job workflow is started
\* (for a template the registry knows and that has an override file).
C18_UnknownOverrideRejected ==
    [][(api.response = "none" /\ api'.response # "none"
            /\ registry.workflows.loaded /\ override_file # NoFile
            /\ requested \ listed # {}) =>
          /\ api'.response = "400"
          /\ api'.detail \in requested \ listed
          /\ ~api'.started]_vars

\* a value of type value_type is of the type expected_type: the same nominal
\* type, or an int where a float is expected
acceptable(value_type, expected_type) ==
    value_type = expected_type \/ (value_type = "int" /\ expected_type = "float")

\* the keys of provided parameters that are not in the override file or whose
\* value is of the wrong type
invalid_parameters(provided_params) ==
    {k \in DOMAIN provided_params :
        \/ k \notin listed
        \/ \E p \in override_file.parameters :
              p.key = k /\ ~acceptable(provided_params[k], p.type)}

\* C19: a reject call whose parameters contain a key that is not in the
\* override file, or a value of the wrong type, fails with the structured
\* error that lists every invalid parameter; the approval row stays pending and
\* no signal is sent (for a call whose link is valid).
C19_InvalidParametersRejected ==
    \A c \in CallIds :
        (calls[c].op = "reject" /\ reject_args[c].raised # "link"
            /\ invalid_parameters(reject_args[c].parameters) # {}) =>
            /\ calls[c].pc = "error"
            /\ reject_args[c].raised = "Invalid parameters provided"
            /\ {e.key : e \in reject_args[c].validation_errors} =
                  invalid_parameters(reject_args[c].parameters)
            /\ approvals[calls[c].token].status = "pending"
            /\ signals[calls[c].token] = <<>>

\* C20: whenever discovery finishes processing a template successfully, the
\* override file on disk carries the hash of the current template; if the
\* stored hash differed, the stale override file is kept unchanged in the .bak
\* file and the regenerated parameter list is derived from the template alone.
C20_OverrideFileFollowsTemplate ==
    [][summary'.discovered = summary.discovered + 1 =>
          /\ override_file'.workflow_hash =
                calculate_hash(json_load(template_file'))
          /\ (override_file # NoFile
                 /\ override_file.workflow_hash #
                       calculate_hash(json_load(template_file))) =>
                /\ summary'.result = "regenerated"
                /\ bak_file' = override_file
                /\ override_file'.parameters =
                      {WorkflowParameter(k, "generated") : k \in template_file.inputs}
                /\ registry'.workflows.parameters = override_file'.parameters]_vars

\* a stale override file with an edited description and without an entry was
\* regenerated: the .bak file has the edits, the new file has neither
C20_Witness ==
    /\ summary.result = "regenerated"
    /\ override_file.workflow_hash = calculate_hash(json_load(template_file))
    /\ bak_file # NoFile
    /\ bak_file.workflow_hash # override_file.workflow_hash
    /\ \E p \in bak_file.parameters :
          /\ p.description = "edited"
          /\ WorkflowParameter(p.key, "generated") \in override_file.parameters
    /\ \E q \in override_file.parameters :
          \A p \in bak_file.parameters : p.key # q.key

\* C21: every Artifact whose parent_artifact_id names a stored artifact P has
\* version = P.version + 1 and the workflow_id (job) of P.
C21_ParentVersionAndJob ==
    \A a \in artifacts : \A p \in get_artifact(a.parent_artifact_id) :
        /\ a.version = p.version + 1
        /\ a.workflow_id = p.workflow_id

\* the upload_file calls made for the ArtifactTransfer row
uploads_of(row) == {u \in uploads : u.transfer = row.id}

\* C22: an ArtifactTransfer row is completed only if the upload of the bytes
\* of its artifact under the artifact's filename and the row's target
\* subfolder returned; the row of an upload that failed is failed; and a step
\* whose transfer failed on its last attempt ends failed, without a Job row
\* and without a child workflow.
C22_CompletedOnlyAfterUpload ==
    /\ \A n \in DOMAIN transfer_rows :
          LET row == transfer_rows[n]
          IN  /\ row.status = "completed" =>
                    Upload(row.id, stored[row.artifact_id].filename,
                           row.target_subfolder, row.artifact_id, TRUE)
                        \in uploads
              /\ (\E u \in uploads_of(row) : ~u.returned) =>
                    row.status = "failed"
    /\ \A s \in Steps :
          (/\ transfer.step = s /\ transfer.pc = "raised"
           /\ transfer.attempt = MaxTransferAttempts
           /\ tasks[s].pc # "transfer_artifacts") =>
              /\ tasks[s].pc = "returned"
              /\ tasks[s].ret.status = "failed"
              /\ s \notin workflow_ids
              /\ job_rows[s] = 0

\* the first attempts failed after an upload and left failed rows, the last
\* attempt uploaded an artifact and failed on the next one, and the step
\* that awaited the activity has returned failed
C22_Witness ==
    \E s \in Steps :
        /\ transfer.step = s /\ transfer.attempt = MaxTransferAttempts
        /\ transfer.pc = "raised"
        /\ tasks[s].pc = "returned" /\ tasks[s].ret.status = "failed"
        /\ \E n, m \in DOMAIN transfer_rows :
              /\ transfer_rows[n].status = "completed"
              /\ transfer_rows[m].status = "failed"
              /\ \E u \in uploads_of(transfer_rows[m]) : ~u.returned

\* a get_best_server call with the strategy has just returned
picked(strategy) == picks' = picks + 1 /\ selection'.strategy = strategy

\* C23: get_best_server("least_loaded") refreshes the snapshot of every
\* registered backend before it decides, and the address it returns is that of
\* an online backend whose total_load is minimal among the online backends,
\* the earliest registered one of them; a backend whose refresh failed is
\* never returned.
C23_LeastLoadedPick ==
    [][picked("least_loaded") =>
          /\ \A n \in DOMAIN servers' : servers'[n].last_check = picks'
          /\ selection'.address # NULL =>
                \E n \in DOMAIN servers' :
                    /\ servers'[n].address = selection'.address
                    /\ servers'[n].is_online
                    /\ \A m \in DOMAIN servers' :
                          servers'[m].is_online =>
                              /\ servers'[m].total_load >= servers'[n].total_load
                              /\ m < n => servers'[m].total_load
                                              > servers'[n].total_load]_vars

\* two backends that were registered in the order 2, 1 are online with the
\* same load after the refresh and the first registered one was returned, or
\* the backend with the lower load in its last snapshot failed
\* its refresh and the other one was returned
C23_Witness ==
    /\ selection.strategy = "least_loaded"
    /\ Len(servers) = 2
    /\ servers[1].address = 2 /\ selection.address = 2
    /\ \A n \in DOMAIN servers : servers[n].last_check = picks
    /\ \/ /\ servers[1].is_online /\ servers[2].is_online
          /\ servers[1].total_load = servers[2].total_load
          /\ servers[1].total_load > 0
       \/ /\ servers[1].is_online /\ ~servers[2].is_online
          /\ servers[2].total_load < servers[1].total_load

\* the last select_best_server attempt of the caller found no server
none_available(caller) == selection.caller = caller /\ selection.address = NULL

\* C24: get_best_server returns None exactly when no registered backend is
\* online after the refresh; select_best_server then raises instead of
\* returning an address, and after the last attempt the job is failed without
\* a submitted prompt, or the step is failed without a Job row or a child
\* workflow.
C24_NoneWhenNoServerOnline ==
    /\ [][picks' = picks + 1 =>
             /\ \A n \in DOMAIN servers' : servers'[n].last_check = picks'
             /\ selection'.address = NULL <=>
                   \A n \in DOMAIN servers' : ~servers'[n].is_online]_vars
    /\ [](none_available("job") =>
             /\ jobwf.pc \in {"select_best_server", "returned"}
             /\ jobwf._server_address = NULL /\ queue = 0
             /\ jobwf.pc = "returned" =>
                   /\ selection.attempt = MaxSelectAttempts
                   /\ job_result.status = "failed")
    /\ [](\A s \in Steps :
             none_available(ToString(s)) =>
                 /\ tasks[s].pc \in {"select_best_server", "returned"}
                 /\ s \notin workflow_ids /\ job_rows[s] = 0
                 /\ tasks[s].pc = "returned" =>
                       /\ selection.attempt = MaxStepSelectAttempts
                       /\ tasks[s].ret.status = "failed")

\* every registered backend failed its refresh in each of the three attempts
\* of a step, and the step has returned failed
C24_Witness ==
    \E s \in Steps :
        /\ none_available(ToString(s))
        /\ selection.attempt = MaxStepSelectAttempts
        /\ Len(servers) = NumServers
        /\ \A n \in DOMAIN servers : servers[n].last_check = picks
        /\ tasks[s].pc = "returned" /\ tasks[s].ret.status = "failed"


\* C25: every file saved to the artifact store receives a local_filename
\* that no other stored file has, and saving a file never overwrites an
\* existing file of the store: the names of the writes are pairwise
\* distinct and no write found a file under its name.
C25_UniqueNameNoOverwrite ==
    /\ \A i, j \in 1..Len(saved) :
          i # j => saved[i].local_filename # saved[j].local_filename
    /\ \A i \in 1..Len(saved) : saved[i].replaced = NULL

(***************************************************************************)
(* A chain execution in which every activity and every child workflow      *)
(* returns or fails, no call is cancelled and every status update is       *)
(* written.                                                                *)
(***************************************************************************)
\* the steps of run() itself
chain_run ==
    \/ create_chain_record
    \/ update_level_returns(TRUE)
    \/ update_completed_returns(TRUE)
    \/ gather_returns

\* the steps of the coroutine _execute_step of step s
execute_step(s) ==
    \/ \E c, e \in BOOLEAN : evaluate_chain_condition(s, c, e)
    \/ resolve_chain_templates(s)
    \/ apply_workflow_parameters(s)
    \/ select_best_server(s)
    \/ select_best_server_raises(s)
    \/ transfer_artifacts(s)
    \/ transfer_artifacts_raises(s)
    \/ create_workflow_record(s)
    \/ \E r \in {"completed", "failed"} : execute_child_workflow(s, r)
    \/ execute_child_workflow_raises(s)
    \/ update_workflow_status(s)
    \/ except_update_workflow_status(s)

NextChainRun ==
    \/ chain_run
    \/ \E s \in Steps : execute_step(s)

\* the workflow engine resumes run() and each _execute_step coroutine whenever
\* the call it awaits has returned or failed
SpecChainFair ==
    /\ InitSpecChain /\ [][NextChainRun]_vars
    /\ WF_vars(chain_run)
    /\ \A s \in Steps : WF_vars(execute_step(s))

\* C26: every chain execution terminates: every step of every level gets a
\* StepResult, and the chain ends with its Chain row finalised as completed
\* or failed.
C26_ChainTerminates ==
    <>(/\ ch.pc = "done"
       /\ \A s \in Steps : step_results[s] # NoStepResult
       /\ chain_row.status \in {"completed", "failed"})

\* the same for the workflow of temporal_sdk alone
ChainTerminates_sdk ==
    executor = "sdk" => C26_ChainTerminates

\* the _execute_step coroutine of step s has returned a completed StepResult
returned_completed(s) ==
    tasks[s].pc = "returned" /\ tasks[s].ret.status = "completed"

\* C27: a step whose parameters set requires_approval never returns status
\* completed before an ApprovalRequest row has been created for the artifact
\* of its job and the workflow has observed an approving decision for it (an
\* approved signal, or, with no signal at all, auto-approval on timeout).
C27_ApprovedBeforeCompleted ==
    \A s \in Steps :
        nodes[s].requires_approval /\ returned_completed(s) =>
            /\ \E t \in Tokens : approvals[t] # NoRow
            /\ approval_decision = "approved" \/ decisions = <<>>

\* the call has ended on a decision (on "None": on the timeout)
decided(decision) ==
    wait.pc = "done" /\ wait.requests > 0 /\ wait.approval_decision = decision

\* the status of a rejected step under each on_rejected policy
rejected_status(config) ==
    IF config.on_rejected = "skip" THEN {"skipped"}
    ELSE IF config.on_rejected = "stop" THEN {"failed"}
    ELSE {"failed", "regenerate"}

\* C28: the final status of a step at the approval gate is determined by the
\* decision and the policy: approved ends the step successfully; rejected
\* with on_rejected=skip ends it as skipped; rejected with on_rejected=stop
\* fails it; without a decision within timeout_hours auto_approve ends it
\* successfully and auto_reject is handled as a rejection.
C28_GateOutcome ==
    /\ decided("approved") => step_status(wait.outcome) = "approved"
    /\ decided("rejected") =>
          step_status(wait.outcome) \in rejected_status(approval_config)
    /\ decided("None") /\ approval_config.timeout_action = "auto_approve" =>
          step_status(wait.outcome) = "approved"
    /\ decided("None") /\ approval_config.timeout_action = "auto_reject" =>
          step_status(wait.outcome) \in rejected_status(approval_config)

\* C29: in ExecutionTracker the result is set at most once: whichever of the
\* poll task and the websocket task sets the gate first determines the
\* TrackingResult returned by track(), a result produced later never replaces
\* it, and both tasks are cancelled (or have ended) when track() has returned.
C29_ResultSetOnce ==
    /\ [][completed => (completed' /\ result' = result)]_vars
    /\ [](trackpc = "returned" =>
             /\ pollpc \in {"done", "cancelled"}
             /\ wspc \in {"done", "cancelled"}
             /\ (completed => ret = result))

\* the part the two tasks keep: between themselves, through _set_result, the
\* first result stays
TasksSetResultOnce ==
    [][completed /\ ~TrackTimeout => (completed' /\ result' = result)]_vars

\* C30: track() always terminates by its deadline: it returns whatever the
\* two tasks are doing, and if neither task has set a result it returns a
\* result with status ERROR whose error says that tracking timed out.
C30_ReturnsByDeadline ==
    /\ <>(trackpc = "returned")
    /\ [](trackpc = "returned" /\ ~completed =>
             ret = TrackingResult("ERROR", "none", "timeout"))

\* track() timed out while the poll task had failed or found nothing on every
\* request and the websocket task was blocked on an open connection
C30_Witness ==
    /\ trackpc = "returned" /\ ~completed
    /\ ret = TrackingResult("ERROR", "none", "timeout")
    /\ polls = MaxPolls /\ pollpc = "cancelled"
    /\ ws = "open" /\ wspc = "cancelled"

\* the job has exactly one is_latest artifact and names it
one_latest(w) ==
    /\ Cardinality({a \in ArtifactsOf(w) : a.is_latest}) = 1
    /\ \E a \in ArtifactsOf(w) :
          a.is_latest /\ workflows[w].latest_artifact_id = a.id

\* a commit of create_artifact(is_latest=True) or of
\* update_artifact_latest_flag(is_latest=True)
latest_commit ==
    \/ \E w \in JobIds, v \in 1..MaxVersion, p \in {NULL} \cup ArtifactIds :
          create_latest_artifact(w, v, p)
    \/ \E a \in ArtifactIds : commit_peers_and_reference(a)
    \/ commit_flag

\* C31: the is_latest transition of a job's artifacts and the update of its
\* latest_artifact_id are atomic: no commit of create_artifact(is_latest=true)
\* or of update_artifact_latest_flag(is_latest=true) takes a job that has
\* exactly one is_latest artifact, named by latest_artifact_id, to a
\* committed state in which it has zero or two, or names an artifact that is
\* not is_latest.
C31_LatestAtomic ==
    [][latest_commit =>
          \A w \in JobIds : one_latest(w) => one_latest(w)']_vars

\* the same for create_artifact(is_latest=True) alone, which commits once
CreateLatestAtomic ==
    [][(\E w \in JobIds, v \in 1..MaxVersion, p \in {NULL} \cup ArtifactIds :
           create_latest_artifact(w, v, p)) =>
          \A w \in JobIds : one_latest(w) => one_latest(w)']_vars

\* C32: after the cancel() signal is delivered to a running single-job
\* workflow the job is recorded as cancelled: from then on its status is
\* never reported as completed or failed, by get_status, by the result of
\* run() or by the Job row, whatever the in-flight activity returns.
C32_CancelledStaysCancelled ==
    jobwf._cancelled =>
        /\ jobwf._status \notin {"completed", "failed"}
        /\ job_result.status \notin {"completed", "failed"}
        /\ job_row # NoJobRow => job_row.status \notin {"completed", "failed"}

\* ---------------------------------------------------------------------------
\* the backend has reported a failure of a prompt of the job: its history
\* record says error
backend_reported_failure ==
    \E p \in PromptIds : p <= queue /\ prompt_history[p] = "error"

\* C33: a failure reported by the backend is never retried: once the backend
\* has recorded an error for a prompt of the job, the workflow JSON of the job
\* is not posted to it again.
C33_FailureNotResubmitted ==
    [][backend_reported_failure => queue' = queue]_vars

\* what the code does keep: once an attempt has returned the failure to run(),
\* run() has returned the failed result and no later step submits anything
ReturnedFailureNotRetried ==
    [][job_result.status = "failed" => queue' = queue /\ act' = NoAttempt]_vars

\* ---------------------------------------------------------------------------
\* a template of the value references a step without an entry in step_results
RECURSIVE references_missing_step(_, _)
references_missing_step(value, results) ==
    CASE value.kind = "str" -> FALSE
      [] value.kind = "template" -> ~results[value.step].present
      [] value.kind = "list" ->
            \E i \in DOMAIN value.items :
                references_missing_step(value.items[i], results)

\* a template of the value references an output key that the output of the
\* referenced step does not contain
RECURSIVE references_missing_key(_, _)
references_missing_key(value, results) ==
    CASE value.kind = "str" -> FALSE
      [] value.kind = "template" ->
            /\ results[value.step].present
            /\ \/ ~results[value.step].has_output
               \/ value.key \notin DOMAIN results[value.step].output
      [] value.kind = "list" ->
            \E i \in DOMAIN value.items :
                references_missing_key(value.items[i], results)

\* C34: resolve_templates fails with TemplateResolutionError whenever a
\* template of a parameter references a step that has no entry in
\* step_results or an output key that the referenced step's output lacks.
C34_MissingReferenceRaises ==
    (/\ resolution # NoResolution
     /\ resolution.outcome # NotResolved
     /\ \E key \in ParameterKeys :
           \/ references_missing_step(resolution.parameters[key],
                                      resolution.step_results)
           \/ references_missing_key(resolution.parameters[key],
                                     resolution.step_results))
        => resolution.outcome.type = "TemplateResolutionError"

\* the half that holds: a reference to a step without an entry raises
MissingStepRaises ==
    (/\ resolution # NoResolution
     /\ resolution.outcome # NotResolved
     /\ \E key \in ParameterKeys :
           references_missing_step(resolution.parameters[key],
                                   resolution.step_results))
        => resolution.outcome.type = "TemplateResolutionError"

\* ---------------------------------------------------------------------------
elements(seq) == {seq[k] : k \in DOMAIN seq}

\* the n consecutive round_robin picks that start with pick i
window(i, n) == i..(i + n - 1)

\* every backend of `online` is returned exactly once by the n picks from i
each_returned_once(i, n) ==
    \A a \in elements(rotation[i].online) :
        Cardinality({k \in window(i, n) : rotation[k].address = a}) = 1

\* C35 as stated: over any n consecutive round_robin picks at each of which
\* the same n backends are online, each of them is returned exactly once.
C35_EachBackendOnce ==
    \A i \in DOMAIN rotation, n \in 1..NumServers :
        (/\ window(i, n) \subseteq DOMAIN rotation
         /\ \A k \in window(i, n) :
               /\ Len(rotation[k].online) = n
               /\ elements(rotation[k].online) = elements(rotation[i].online))
            => each_returned_once(i, n)

\* C35, amended: over any n consecutive round_robin picks at each of which
\* the same n backends are online and stand in the same order of
\* registration, each of them is returned exactly once.
C35_EachBackendOnce_SameOrder ==
    \A i \in DOMAIN rotation, n \in 1..NumServers :
        (/\ window(i, n) \subseteq DOMAIN rotation
         /\ \A k \in window(i, n) :
               /\ Len(rotation[k].online) = n
               /\ rotation[k].online = rotation[i].online)
            => each_returned_once(i, n)

\* two consecutive round_robin picks with the same two backends online in
\* the same order
C35_Witness ==
    \E i \in DOMAIN rotation :
        /\ i + 1 \in DOMAIN rotation
        /\ Len(rotation[i].online) = 2
        /\ rotation[i + 1].online = rotation[i].online
        /\ rotation[i].address # rotation[i + 1].address

\* ---------------------------------------------------------------------------
\* the decision the ended call of step s acted on
applied_decision(s) ==
    IF gate_calls[s].outcome = Returned("approved") THEN "approved"
    ELSE IF gate_calls[s].outcome = on_timeout(DefaultApprovalConfig) THEN "timeout"
    ELSE "rejected"

NeverConsumedByAnother ==
    \A s \in GateSteps :
        (gate_calls[s].pc = "done" /\ applied_decision(s) # "timeout") =>
            \E x \in sent : x.step = s /\ x.decision = applied_decision(s)

\* the second half alone: a decision is never lost to a reset of the slot
NeverLostToReset ==
    \A s \in GateSteps :
        (gate_calls[s].pc = "done" /\ applied_decision(s) = "timeout") =>
            \A x \in sent : ~(x.step = s /\ x.waiting)

\* ---------------------------------------------------------------------------
\* a call of the service for the request is still about to send its signal
signal_in_flight(t) ==
    \E c \in CallIds : calls[c].token = t /\ calls[c].pc = "signal"

\* the decision of every row in a terminal state has been delivered, once
\* no call is left that has still to send it
decided_rows_signalled ==
    \A t \in Tokens :
        (/\ approvals[t] # NoRow
         /\ approvals[t].status \in {"approved", "rejected"}
         /\ ~signal_in_flight(t))
            => \E i \in DOMAIN signals[t] :
                  signals[t][i].decision = approvals[t].status

\* C37: with the service connected to the workflow engine, every approval
\* request whose row has become approved or rejected through the service
\* leads to the workflow receiving the matching decision; a failed send
\* does not leave the row in a terminal state with no decision delivered.
C37_DecidedRowSignalled == temporal_client => decided_rows_signalled

\* ---------------------------------------------------------------------------
\* the Artifact rows of the job for one output file
rows_of(filename) == {r \in artifact_rows : r.filename = filename}

\* the files of the store
stored_files == {n \in LocalFilenames : storage_dir[n] # NULL}

\* C38: when download_and_store_artifacts finally succeeds for a job, the job
\* has exactly one Artifact row and one stored file per output file the
\* backend reported, whatever attempts failed before.
C38_OneRowPerOutputFile ==
    download.pc = "succeeded" =>
        /\ \A i \in DOMAIN output_files :
              Cardinality(rows_of(output_files[i])) = 1
        /\ Cardinality(stored_files) = Len(output_files)

\* what holds: an activity that succeeds at its first attempt leaves exactly
\* one row and one file per output file
FirstAttemptOneRowPerFile ==
    (download.pc = "succeeded" /\ download.attempt = 1) =>
        /\ \A i \in DOMAIN output_files :
              Cardinality(rows_of(output_files[i])) = 1
        /\ Cardinality(stored_files) = Len(output_files)

\* ---------------------------------------------------------------------------
\* C39: for a chain step, the backend its dependencies' artifacts are
\* uploaded to, the backend its job is submitted on and the address in its
\* Job row are the server the step pre-selected, and the child workflow
\* never selects a server of its own once the chain has given it one.
C39_OneBackendPerStep ==
    route.kind = "step" =>
        /\ route.uploaded_to \subseteq {route.target_server}
        /\ route.submitted_on \subseteq {route.target_server}
        /\ route.row_server_address \in {NULL, route.target_server}
        /\ route.request_server_address # NULL =>
              /\ route.pc # "child_select_best_server"
              /\ route._server_address \in {NULL, route.request_server_address}

\* a step with dependencies whose job was submitted in a second run of the
\* child
C39_Witness ==
    /\ route.kind = "step"
    /\ route.uploaded_to # {}
    /\ route.row_server_address # NULL
    /\ route.submitted_on # {}
    /\ route.runs = MaxChildRuns
    /\ route.pc = "returned"

\* ---------------------------------------------------------------------------
\* a SUCCESS result carries the record the backend's history holds
carries_history(r) ==
    r.status = "SUCCESS" => r.history_data # "none" /\ r.history_data = history

\* C40: whenever track() returns SUCCESS, the result carries the backend's
\* history record of the prompt, whether the poll task or the websocket
\* listener found the success; no step taken while the history holds no
\* record of the prompt produces a SUCCESS result.
C40_SuccessCarriesHistory ==
    /\ [](carries_history(ret) /\ carries_history(result))
    /\ [][history = "none" => result'.status # "SUCCESS"]_vars

\* track() has returned a SUCCESS that the websocket listener found: no poll
\* request was sent
C40_Witness ==
    /\ trackpc = "returned"
    /\ ret.status = "SUCCESS"
    /\ ret.history_data = "success"
    /\ polls = 0
====
